---- MODULE Spec2Model ----
(***************************************************************************)
(* The VM session lifecycle engine of appack-cli: the launch orchestrator  *)
(* (src/internal/launch.rs, launch), the session broker                    *)
(* (appack_server_logic and its handler threads), the display-client side  *)
(* of the broker protocol (connect_to_appack_socket_and_launch_rdp), the   *)
(* boot/teardown snapshot policy and the QMP snapshot control client       *)
(* (src/utils/qmp.rs).                                                     *)
(***************************************************************************)
EXTENDS Integers, Sequences, FiniteSets, TLC

\* ------------------------------------------------------------------ bounds
\* external display-client invocations that may attach to one broker
MaxClients == 1
\* launches of the same installed app that follow one another
MaxLaunches == 2
\* snapshot-client calls a caller makes on one control session
MaxCalls == 2

\* ------------------------------------------------------------- constants
INIT_TAG == "appack-init"
ONCLOSE_TAG == "appack-onclose"
\* a tag made by the user with qemu-img, neither of the two well-known ones
USER_TAG == "user-backup"
AllTags == {INIT_TAG, ONCLOSE_TAG, USER_TAG}

\* connection 0 is the orchestrator's own display client, the others are
\* display clients of later launch invocations attaching to this session
LocalConn == 0
Conns == 0..MaxClients
External == Conns \ {LocalConn}

\* ports the OS may hand out in get_os_assigned_port
Ports == {1025, 40000}

Modes == {"OnClose", "Never", "NeverLoad"}

VARIABLES
    \* ---- installed app and image (persist across launches)
    snapshot_mode,  \* InstalledAppPackEntry.snapshot_mode
    tags,           \* snapshot tags on the disk image
    launchNo,       \* which launch of the app this is
    prev,           \* summary of the previous launch
    \* ---- launch (the orchestrator)
    pc,             \* position in launch
    err,            \* the error launch returned, "" when none
    prior,          \* a previous session: none / stale / cleaned / live / closing
    notif_shown,    \* the "will open soon" notification was shown
    free_port,      \* port chosen for the VM's display, 0 before
    boot,           \* the -loadvm decision
    tagsAtBoot,     \* the image's tags when the boot decision was taken
    qemu_child,     \* the VM process: none / running / exited
    qmp_ready,      \* the control socket accepts connections
    \* ---- broker
    lst,            \* listener thread position
    lstWhy,         \* why the listener left its loop
    sockFile,       \* appack.sock: absent / stale / ours / other
    client_count,   \* the AtomicUsize
    chan,           \* messages pending in the shutdown channel
    backlog,        \* connections waiting in the listen queue
    srv,            \* per connection: handler thread position
    hc,             \* per connection: the handler's local c
    hdec,           \* per connection: counter value its fetch_sub left
    cli,            \* per connection: the client's position
    inbuf,          \* per connection: bytes the client sent, unread
    portbuf,        \* per connection: bytes the handler wrote
    cport,          \* per connection: the port the client decoded
    sent,           \* shutdown signals sent so far in this session
    \* ---- control session (QMP)
    qcall,          \* the blocking call in progress
    jobs,           \* the VM's job list: job id -> status record
    cmdLog,         \* QMP commands issued by this launch, in order
    callLog,        \* snapshot-client calls made by this launch with results
    nBlocks,        \* block devices with media inserted
    attachers,      \* the later launch invocations that may attach to the session
    \* ---- display client command line
    unix_path_arg,  \* the argument of a $TO_WIN_ESCAPED_PATH**...** marker
    escaped_path,   \* what to_win_escaped_path returned for it
    \* ---- installer
    installed_yaml, \* the installed file: whether it parses, and its list
    app_dirs,       \* the app directories <home>/<id>/<version> on disk
    last_call       \* the last install_appack / uninstall_appack call and its result

orchVars == <<pc, err, prior, notif_shown, free_port, boot, tagsAtBoot, qemu_child, qmp_ready>>
brokerVars == <<lst, lstWhy, sockFile, client_count, chan, backlog, srv, hc, hdec, cli,
                inbuf, portbuf, cport, sent>>
qmpVars == <<qcall, jobs, cmdLog, callLog>>
appVars == <<snapshot_mode, tags, launchNo, prev, nBlocks, attachers, unix_path_arg,
            escaped_path, installed_yaml, app_dirs, last_call>>
installerVars == <<installed_yaml, app_dirs, last_call>>
vars == <<appVars, orchVars, brokerVars, qmpVars>>

\* ------------------------------------------------------------ helpers
\* no call of the installer has been made: there is no installed file yet
\* (get_installed reads that as the empty list, local_settings.rs:94-98)
NoCallYet == [op |-> "none", res |-> ""]
NoInstaller ==
    /\ installed_yaml = [parses |-> TRUE, installed |-> <<>>]
    /\ app_dirs = {}
    /\ last_call = NoCallYet

NoCall == [op |-> "none", tag |-> "", at |-> "idle", job |-> ""]
NoPrev == [boot |-> "none", calls |-> <<>>, pc |-> "none", tags0 |-> {}]

\* main returned: the process and every thread of it are gone
Returned == pc \in {"Done", "Failed"}

\* the two bytes of a u16 with the high byte first
to_be_bytes(p) == <<(p \div 256) % 256, p % 256>>
\* u16::to_le_bytes
to_le_bytes(p) == <<p % 256, (p \div 256) % 256>>
\* u16::from_le_bytes
from_le_bytes(b) == b[1] + 256 * b[2]

\* the socket at appack.sock is listening: bound by our listener thread and
\* the UnixListener not dropped yet
Listening == sockFile = "ours" /\ lst \in {"accept", "tryrecv", "cleanup"}

\* ------------------------------------------------------- broker: clients
\* a later launch invocation connects to appack.sock (launch.rs:136): the
\* connection waits in the listen queue until the accept loop takes it
ClientConnect(c) ==
    /\ c \in attachers
    /\ cli[c] = "idle"
    /\ Listening
    /\ cli' = [cli EXCEPT ![c] = "connected"]
    /\ backlog' = Append(backlog, c)
    /\ srv' = [srv EXCEPT ![c] = "backlog"]
    /\ UNCHANGED <<appVars, orchVars, qmpVars, lst, lstWhy, sockFile, client_count, chan,
                   hc, hdec, inbuf, portbuf, cport, sent>>

\* read_exact of the 2-byte startup message and its decoding (launch.rs:151-153)
ClientGotPort(c) ==
    /\ cli[c] = "connected"
    /\ portbuf[c] # <<>>
    /\ cli' = [cli EXCEPT ![c] = "gotport"]
    /\ cport' = [cport EXCEPT ![c] = from_le_bytes(portbuf[c])]
    /\ UNCHANGED <<appVars, orchVars, qmpVars, lst, lstWhy, sockFile, client_count, chan,
                   backlog, srv, hc, hdec, inbuf, portbuf, sent>>

\* the client's stream is dropped: xfreerdp3 exited or could not be spawned
\* (launch.rs:157-162); an external invocation can also be killed while it
\* still waits for the port.  For the local client this is where
\* connect_to_appack_socket_and_launch_rdp returns to launch.
ClientExit(c) ==
    /\ \/ cli[c] \in {"gotport", "foreign"}
       \/ c \in External /\ cli[c] = "connected"
    /\ cli' = [cli EXCEPT ![c] = "closed"]
    /\ IF c = LocalConn
         THEN pc = "LocalClient" /\ pc' = "Join"
         ELSE pc' = pc
    /\ UNCHANGED <<appVars, err, prior, notif_shown, free_port, boot, tagsAtBoot, qemu_child,
                   qmp_ready, qmpVars, lst, lstWhy, sockFile, client_count, chan, backlog,
                   srv, hc, hdec, inbuf, portbuf, cport, sent>>

\* a client writes a byte on the broker connection; the display client
\* never does, the handler expects it all the same (launch.rs:226-231)
ClientSendByte(c) ==
    /\ c \in External
    /\ cli[c] \in {"connected", "gotport"}
    /\ inbuf[c] = 0
    /\ srv[c] \in {"backlog", "write", "read"}
    /\ inbuf' = [inbuf EXCEPT ![c] = 1]
    /\ UNCHANGED <<appVars, orchVars, qmpVars, lst, lstWhy, sockFile, client_count, chan,
                   backlog, srv, hc, hdec, cli, portbuf, cport, sent>>

\* ------------------------------------------------------ broker: listener
\* UnixListener::bind (launch.rs:185-191): fails when the path exists
LBind ==
    /\ lst = "bind" /\ ~Returned
    /\ IF sockFile = "absent"
         THEN sockFile' = "ours" /\ lst' = "accept" /\ lstWhy' = lstWhy
         ELSE sockFile' = sockFile /\ lst' = "exited" /\ lstWhy' = "bindfail"
    /\ UNCHANGED <<appVars, orchVars, qmpVars, client_count, chan, backlog, srv, hc, hdec,
                   cli, inbuf, portbuf, cport, sent>>

\* listener.accept() (launch.rs:200-263): a pending connection is counted
\* and given a handler thread; WouldBlock leads to the shutdown poll
LAccept ==
    /\ lst = "accept" /\ ~Returned
    /\ IF backlog # <<>>
         THEN /\ client_count' = client_count + 1
              /\ srv' = [srv EXCEPT ![Head(backlog)] = "write"]
              /\ backlog' = Tail(backlog)
              /\ lst' = lst
         ELSE /\ lst' = "tryrecv"
              /\ UNCHANGED <<client_count, srv, backlog>>
    /\ UNCHANGED <<appVars, orchVars, qmpVars, lstWhy, sockFile, chan, hc, hdec, cli, inbuf,
                   portbuf, cport, sent>>

\* accept fails with an error other than WouldBlock (launch.rs:265-268)
LAcceptError ==
    /\ lst = "accept" /\ ~Returned
    /\ lst' = "cleanup"
    /\ lstWhy' = "accepterr"
    /\ UNCHANGED <<appVars, orchVars, qmpVars, sockFile, client_count, chan, backlog, srv,
                   hc, hdec, cli, inbuf, portbuf, cport, sent>>

\* LTryRecv without the break: the loop goes on accepting after it took
\* the shutdown signal
LTryRecvNoBreak ==
    /\ lst = "tryrecv" /\ ~Returned
    /\ IF chan > 0
         THEN chan' = chan - 1 /\ lst' = "accept" /\ lstWhy' = "signal"
         ELSE chan' = chan /\ lst' = "accept" /\ lstWhy' = lstWhy
    /\ UNCHANGED <<appVars, orchVars, qmpVars, sockFile, client_count, backlog, srv, hc,
                   hdec, cli, inbuf, portbuf, cport, sent>>

\* try_recv that breaks out of the loop whether or not a signal is pending
LTryRecvBreaksUnsignalled ==
    /\ lst = "tryrecv" /\ ~Returned
    /\ chan' = IF chan > 0 THEN chan - 1 ELSE chan
    /\ lst' = "cleanup" /\ lstWhy' = "signal"
    /\ UNCHANGED <<appVars, orchVars, qmpVars, sockFile, client_count, backlog, srv, hc,
                   hdec, cli, inbuf, portbuf, cport, sent>>

\* shutdown_rx.try_recv() after WouldBlock (launch.rs:255-263)
LTryRecv ==
    /\ lst = "tryrecv" /\ ~Returned
    /\ IF chan > 0
         THEN chan' = chan - 1 /\ lst' = "cleanup" /\ lstWhy' = "signal"
         ELSE chan' = chan /\ lst' = "accept" /\ lstWhy' = lstWhy
    /\ UNCHANGED <<appVars, orchVars, qmpVars, sockFile, client_count, backlog, srv, hc,
                   hdec, cli, inbuf, portbuf, cport, sent>>

\* LCleanup without the remove_file
LCleanupKeepsFile ==
    /\ lst = "cleanup" /\ ~Returned
    /\ sockFile' = sockFile
    /\ lst' = "exited"
    /\ UNCHANGED <<appVars, orchVars, qmpVars, lstWhy, client_count, chan, backlog, srv, hc,
                   hdec, cli, inbuf, portbuf, cport, sent>>

\* remove_file and the end of the thread, which drops the listener
\* (launch.rs:272-275)
LCleanup ==
    /\ lst = "cleanup" /\ ~Returned
    /\ sockFile' = IF sockFile = "ours" THEN "absent" ELSE sockFile
    /\ lst' = "exited"
    /\ UNCHANGED <<appVars, orchVars, qmpVars, lstWhy, client_count, chan, backlog, srv, hc,
                   hdec, cli, inbuf, portbuf, cport, sent>>

\* ------------------------------------------------------ broker: handlers
\* stream.write_all(rdp_port.to_le_bytes()) (launch.rs:216-222): on an
\* error (the peer is gone) the handler returns
HWrite(c) ==
    /\ srv[c] = "write" /\ ~Returned
    /\ IF cli[c] = "closed"
         THEN srv' = [srv EXCEPT ![c] = "aborted"] /\ portbuf' = portbuf
         ELSE /\ srv' = [srv EXCEPT ![c] = "read"]
              /\ portbuf' = [portbuf EXCEPT ![c] = to_le_bytes(free_port)]
    /\ UNCHANGED <<appVars, orchVars, qmpVars, lst, lstWhy, sockFile, client_count, chan,
                   backlog, hc, hdec, cli, inbuf, cport, sent>>

\* stream.read_exact(&mut buf) (launch.rs:224-241): returns with a byte,
\* with EOF/reset once the client closed; every outcome falls through
HRead(c) ==
    /\ srv[c] = "read" /\ ~Returned
    /\ inbuf[c] > 0 \/ cli[c] = "closed"
    /\ inbuf' = [inbuf EXCEPT ![c] = 0]
    /\ srv' = [srv EXCEPT ![c] = "fetch_sub"]
    /\ UNCHANGED <<appVars, orchVars, qmpVars, lst, lstWhy, sockFile, client_count, chan,
                   backlog, hc, hdec, cli, portbuf, cport, sent>>

\* client_count_handler.fetch_sub(1) (launch.rs:243)
HFetchSub(c) ==
    /\ srv[c] = "fetch_sub" /\ ~Returned
    /\ client_count' = client_count - 1
    /\ hdec' = [hdec EXCEPT ![c] = client_count - 1]
    /\ srv' = [srv EXCEPT ![c] = "load"]
    /\ UNCHANGED <<appVars, orchVars, qmpVars, lst, lstWhy, sockFile, chan, backlog, hc,
                   cli, inbuf, portbuf, cport, sent>>

\* let c = client_count_handler.load() (launch.rs:244)
HLoad(c) ==
    /\ srv[c] = "load" /\ ~Returned
    /\ hc' = [hc EXCEPT ![c] = client_count]
    /\ srv' = [srv EXCEPT ![c] = "send"]
    /\ UNCHANGED <<appVars, orchVars, qmpVars, lst, lstWhy, sockFile, client_count, chan,
                   backlog, hdec, cli, inbuf, portbuf, cport, sent>>

\* if c == 0 { handler_tx.send(()) } (launch.rs:248-251)
HSend(c) ==
    /\ srv[c] = "send" /\ ~Returned
    /\ IF hc[c] = 0
         THEN chan' = chan + 1 /\ sent' = sent + 1
         ELSE chan' = chan /\ sent' = sent
    /\ srv' = [srv EXCEPT ![c] = "done"]
    /\ UNCHANGED <<appVars, orchVars, qmpVars, lst, lstWhy, sockFile, client_count, backlog,
                   hc, hdec, cli, inbuf, portbuf, cport>>

\* ------------------------------------------------------ snapshot policy
RECURSIVE SeqOf(_)
SeqOf(S) == IF S = {} THEN <<>> ELSE LET x == CHOOSE y \in S : TRUE IN <<x>> \o SeqOf(S \ {x})

RECURSIVE Rows(_, _)
\* one line of the table per snapshot: ID TAG VM_SIZE DATE VM_CLOCK ICOUNT
Rows(ts, id) ==
    IF ts = <<>> THEN <<>>
    ELSE <<ToString(id), Head(ts), "0", "B", "2025-01-01", "00:00:00", "00:00:00.000", "--",
           "\n">> \o Rows(Tail(ts), id + 1)

\* stdout of `qemu-img snapshot -lU image` as words; two neighbouring words
\* are separated by spaces, "\n" ends a line (helpers.rs:238-251)
snapshot_listing(ts) ==
    IF ts = {} THEN <<>>
    ELSE <<"Snapshot", "list:", "\n", "ID", "TAG", "VM_SIZE", "DATE", "VM_CLOCK", "ICOUNT",
           "\n">> \o Rows(SeqOf(ts), 1)

\* stdout.contains(" {snapshot_name} ") (helpers.rs:252): the name as a
\* word with a space on either side
has_snapshot(snapshot_name, ts) ==
    LET out == snapshot_listing(ts) IN
    \E i \in 2..(Len(out) - 1) :
        out[i] = snapshot_name /\ out[i - 1] # "\n" /\ out[i + 1] # "\n"

\* BootDecision with the OnClose branch looking for appack-init first
BootDecisionInitFirst(mode, ts) ==
    CASE mode = "NeverLoad" -> "ColdBoot"
      [] mode = "Never" ->
            IF ~has_snapshot(INIT_TAG, ts) THEN "NotPackagedProperly" ELSE INIT_TAG
      [] mode = "OnClose" ->
            IF ~has_snapshot(INIT_TAG, ts)
              THEN IF has_snapshot(ONCLOSE_TAG, ts) THEN ONCLOSE_TAG ELSE "ColdBoot"
              ELSE INIT_TAG

\* BootDecision with the Never branch not looking at the image
BootDecisionNoCheck(mode, ts) ==
    CASE mode = "NeverLoad" -> "ColdBoot"
      [] mode = "Never" -> INIT_TAG
      [] mode = "OnClose" ->
            IF ~has_snapshot(ONCLOSE_TAG, ts)
              THEN IF has_snapshot(INIT_TAG, ts) THEN INIT_TAG ELSE "ColdBoot"
              ELSE ONCLOSE_TAG

\* match app_installed.snapshot_mode at boot (launch.rs:344-385): the
\* snapshot handed to -loadvm, "ColdBoot" for none, or the fatal error
BootDecision(mode, ts) ==
    CASE mode = "NeverLoad" -> "ColdBoot"
      [] mode = "Never" ->
            IF ~has_snapshot(INIT_TAG, ts) THEN "NotPackagedProperly" ELSE INIT_TAG
      [] mode = "OnClose" ->
            IF ~has_snapshot(ONCLOSE_TAG, ts)
              THEN IF has_snapshot(INIT_TAG, ts) THEN INIT_TAG ELSE "ColdBoot"
              ELSE ONCLOSE_TAG

\* TeardownCalls with the save before the delete
TeardownCallsSaveFirst(mode) ==
    IF mode = "OnClose" THEN <<"save", "delete">> ELSE <<>>

\* match app_installed.snapshot_mode at teardown (launch.rs:454-468): the
\* snapshot-client calls made before quit
TeardownCalls(mode) ==
    IF mode = "OnClose" THEN <<"delete", "save">> ELSE <<>>

\* ------------------------------------------------- launch: up to the VM
\* UnixStream::connect(appack_socket_path) by what is at the path
\* (launch.rs:136-146): a listener, a socket file nobody listens on, or
\* nothing; both failures carry the same context and differ in the
\* io::Error they wrap
ConnectResult(file) ==
    CASE file = "absent" ->
            [ok |-> FALSE, kind |-> "NotFound",
             context |-> "Failed to connect to AppPack socket"]
      [] file = "stale" ->
            [ok |-> FALSE, kind |-> "ConnectionRefused",
             context |-> "Failed to connect to AppPack socket"]
      [] OTHER -> [ok |-> TRUE, kind |-> "", context |-> ""]

\* TryAttach without the remove_file of the refused branch
TryAttachKeepsFile ==
    /\ pc = "TryAttach"
    /\ LET r == ConnectResult(sockFile) IN
       /\ pc' = IF r.ok THEN "RemoteClient" ELSE "AwaitPrior"
       /\ sockFile' = sockFile
       /\ prior' = IF r.kind = "ConnectionRefused" THEN "cleaned" ELSE prior
    /\ UNCHANGED <<appVars, err, notif_shown, free_port, boot, tagsAtBoot, qemu_child,
                   qmp_ready, qmpVars, lst, lstWhy, client_count, chan, backlog, srv, hc,
                   hdec, cli, inbuf, portbuf, cport, sent>>

\* the first connect_to_appack_socket_and_launch_rdp (launch.rs:296-303,
\* 136-146): a live session is attached to, a refused connect removes the
\* stale socket file, any failure leads on to starting a session
TryAttach ==
    /\ pc = "TryAttach"
    /\ LET r == ConnectResult(sockFile) IN
       /\ pc' = IF r.ok THEN "RemoteClient" ELSE "AwaitPrior"
       /\ sockFile' = IF r.kind = "ConnectionRefused" THEN "absent" ELSE sockFile
       /\ prior' = IF r.kind = "ConnectionRefused" THEN "cleaned" ELSE prior
    /\ UNCHANGED <<appVars, err, notif_shown, free_port, boot, tagsAtBoot, qemu_child,
                   qmp_ready, qmpVars, lst, lstWhy, client_count, chan, backlog, srv, hc,
                   hdec, cli, inbuf, portbuf, cport, sent>>

\* this launch runs as a display client of the live session and returns
\* Ok; when xfreerdp3 cannot be run the error makes launch start a session
RemoteClient ==
    /\ pc = "RemoteClient"
    /\ \/ pc' = "Done"
       \/ pc' = "AwaitPrior"
    /\ UNCHANGED <<appVars, err, prior, notif_shown, free_port, boot, tagsAtBoot, qemu_child,
                   qmp_ready, qmpVars, brokerVars>>

\* the loop on UnixStream::connect(qmp_socket_path) (launch.rs:308-332):
\* while a VM answers, the notification is shown once and the loop sleeps;
\* a notification that cannot be shown is returned as an error
AwaitPrior ==
    /\ pc = "AwaitPrior"
    /\ IF prior \in {"live", "closing", "orphan"}
         THEN \/ notif_shown' = TRUE /\ pc' = pc /\ err' = err
              \/ /\ ~notif_shown
                 /\ notif_shown' = notif_shown
                 /\ pc' = "Failed" /\ err' = "PriorNotificationFailed"
         ELSE notif_shown' = notif_shown /\ pc' = "ChoosePort" /\ err' = err
    /\ UNCHANGED <<appVars, prior, free_port, boot, tagsAtBoot, qemu_child, qmp_ready,
                   qmpVars, brokerVars>>

\* the previous session goes on with its life: its broker leaves and
\* removes its socket, later its VM quits
PriorSessionEnds ==
    /\ pc \in {"TryAttach", "RemoteClient", "AwaitPrior"}
    /\ \/ prior = "live" /\ prior' = "closing" /\ sockFile' = "absent"
       \/ prior = "closing" /\ prior' = "none" /\ sockFile' = sockFile
    /\ UNCHANGED <<appVars, pc, err, notif_shown, free_port, boot, tagsAtBoot, qemu_child,
                   qmp_ready, qmpVars, lst, lstWhy, client_count, chan, backlog, srv, hc,
                   hdec, cli, inbuf, portbuf, cport, sent>>

\* another launch invocation of the same app, which also found no session,
\* binds appack.sock before this one does (launch.rs:185)
ForeignBind ==
    /\ pc \in {"ChoosePort", "BootPolicy", "Spawn", "AwaitQmp", "StartBroker", "AttachLocal"}
    /\ lst \in {"unspawned", "bind"}
    /\ sockFile = "absent" /\ prior \in {"none", "cleaned"}
    /\ sockFile' = "other"
    /\ UNCHANGED <<appVars, pc, err, prior, notif_shown, free_port, boot, tagsAtBoot, qemu_child,
                   qmp_ready, qmpVars, lst, lstWhy, client_count, chan, backlog, srv, hc,
                   hdec, cli, inbuf, portbuf, cport, sent>>

\* get_os_assigned_port (launch.rs:334, helpers.rs:67-71)
ChoosePort ==
    /\ pc = "ChoosePort"
    /\ \E p \in Ports : free_port' = p
    /\ pc' = "BootPolicy"
    /\ UNCHANGED <<appVars, err, prior, notif_shown, boot, tagsAtBoot, qemu_child, qmp_ready,
                   qmpVars, brokerVars>>

\* the boot match (launch.rs:344-385)
ApplyBootPolicy ==
    /\ pc = "BootPolicy"
    /\ tagsAtBoot' = tags
    /\ LET d == BootDecision(snapshot_mode, tags) IN
       \/ /\ d = "NotPackagedProperly"
          /\ pc' = "Failed" /\ err' = d /\ boot' = boot
       \/ /\ d # "NotPackagedProperly"
          /\ pc' = "Spawn" /\ err' = err /\ boot' = d
       \/ \* the "first time" notification cannot be shown (launch.rs:372-379)
          /\ snapshot_mode = "OnClose" /\ d = "ColdBoot"
          /\ pc' = "Failed" /\ err' = "NotificationFailed" /\ boot' = d
       \/ \* qemu-img fails (helpers.rs:243-249)
          /\ snapshot_mode # "NeverLoad"
          /\ pc' = "Failed" /\ err' = "ImageQueryFailed" /\ boot' = boot
    /\ UNCHANGED <<appVars, prior, notif_shown, free_port, qemu_child, qmp_ready, qmpVars,
                   brokerVars>>

\* qemu_command.spawn() (launch.rs:387-394)
SpawnVM ==
    /\ pc = "Spawn"
    /\ \/ qemu_child' = "running" /\ pc' = "AwaitQmp" /\ err' = err
       \/ qemu_child' = qemu_child /\ pc' = "Failed" /\ err' = "SpawnFailed"
    /\ UNCHANGED <<appVars, prior, notif_shown, free_port, boot, tagsAtBoot, qmp_ready,
                   qmpVars, brokerVars>>

\* the VM opens its control socket
VmBecomesReady ==
    /\ qemu_child = "running" /\ ~qmp_ready
    /\ qmp_ready' = TRUE
    /\ UNCHANGED <<appVars, pc, err, prior, notif_shown, free_port, boot, tagsAtBoot,
                   qemu_child, qmpVars, brokerVars>>

\* the VM process exits by itself.  Only the readiness wait, the teardown
\* and the VM's own jobs look at the VM, so its death while the broker
\* serves clients is the same as its death just before the teardown.
VmDies ==
    /\ qemu_child = "running"
    /\ pc \in {"AwaitQmp", "TeardownConnect", "TeardownPolicy", "Snapshotting", "Quit"}
    /\ qemu_child' = "exited"
    /\ qmp_ready' = FALSE
    /\ UNCHANGED <<appVars, pc, err, prior, notif_shown, free_port, boot, tagsAtBoot,
                   qmpVars, brokerVars>>

\* AwaitControlSocketReady without the look at the child (try_wait): a
\* dead VM is taken for one whose socket answered
AwaitControlSocketNoExitCheck ==
    /\ pc = "AwaitQmp"
    /\ err' = err
    /\ pc' = IF qmp_ready \/ qemu_child = "exited" THEN "StartBroker" ELSE pc
    /\ UNCHANGED <<appVars, prior, notif_shown, free_port, boot, tagsAtBoot, qemu_child,
                   qmp_ready, qmpVars, brokerVars>>

\* the wait for the control socket (launch.rs:396-424)
AwaitControlSocketReady ==
    /\ pc = "AwaitQmp"
    /\ IF qemu_child = "exited"
         THEN pc' = "Failed" /\ err' = "VmDiedBeforeReady"
         ELSE /\ err' = err
              /\ pc' = IF qmp_ready THEN "StartBroker" ELSE pc
    /\ UNCHANGED <<appVars, prior, notif_shown, free_port, boot, tagsAtBoot, qemu_child,
                   qmp_ready, qmpVars, brokerVars>>

\* appack_server_logic spawns the listener thread (launch.rs:428, 168-183)
StartBroker ==
    /\ pc = "StartBroker"
    /\ lst' = "bind"
    /\ pc' = "AttachLocal"
    /\ UNCHANGED <<appVars, err, prior, notif_shown, free_port, boot, tagsAtBoot, qemu_child,
                   qmp_ready, qmpVars, lstWhy, sockFile, client_count, chan, backlog, srv,
                   hc, hdec, cli, inbuf, portbuf, cport, sent>>

\* the second connect_to_appack_socket_and_launch_rdp (launch.rs:433-438):
\* the connect reaches our listener, another session's, or nobody
AttachLocalClient ==
    /\ pc = "AttachLocal"
    /\ \/ /\ Listening
          /\ cli' = [cli EXCEPT ![LocalConn] = "connected"]
          /\ backlog' = Append(backlog, LocalConn)
          /\ srv' = [srv EXCEPT ![LocalConn] = "backlog"]
          /\ pc' = "LocalClient"
       \/ /\ sockFile = "other"
          /\ cli' = [cli EXCEPT ![LocalConn] = "foreign"]
          /\ pc' = "LocalClient"
          /\ UNCHANGED <<backlog, srv>>
       \/ /\ ~Listening /\ sockFile # "other"
          /\ pc' = "Join"
          /\ UNCHANGED <<cli, backlog, srv>>
    /\ UNCHANGED <<appVars, err, prior, notif_shown, free_port, boot, tagsAtBoot, qemu_child,
                   qmp_ready, qmpVars, lst, lstWhy, sockFile, client_count, chan, hc, hdec,
                   inbuf, portbuf, cport, sent>>

\* read_exact of the port fails in the local client: the listener was
\* dropped with the connection still in its queue (launch.rs:152)
LocalReadFails ==
    /\ pc = "LocalClient"
    /\ cli[LocalConn] = "connected" /\ srv[LocalConn] = "backlog" /\ lst = "exited"
    /\ cli' = [cli EXCEPT ![LocalConn] = "closed"]
    /\ pc' = "Join"
    /\ UNCHANGED <<appVars, err, prior, notif_shown, free_port, boot, tagsAtBoot, qemu_child,
                   qmp_ready, qmpVars, lst, lstWhy, sockFile, client_count, chan, backlog,
                   srv, hc, hdec, inbuf, portbuf, cport, sent>>

\* Join that does not wait for the listener thread
JoinNoWait ==
    /\ pc = "Join"
    /\ pc' = "TeardownConnect"
    /\ UNCHANGED <<appVars, err, prior, notif_shown, free_port, boot, tagsAtBoot, qemu_child,
                   qmp_ready, qmpVars, brokerVars>>

\* handle.join() (launch.rs:440-444)
Join ==
    /\ pc = "Join"
    /\ lst = "exited"
    /\ pc' = "TeardownConnect"
    /\ UNCHANGED <<appVars, err, prior, notif_shown, free_port, boot, tagsAtBoot, qemu_child,
                   qmp_ready, qmpVars, brokerVars>>

\* ------------------------------------------------ control client (QMP)
\* format!("{snapshot_name}-snapshot") (qmp.rs:50)
save_job_name(tag) == tag \o "-snapshot"
\* a delete job named like the save job of its tag
delete_job_name_LikeSave(tag) == tag \o "-snapshot"

\* format!("{snapshot_name}-del-snapshot") (qmp.rs:138)
delete_job_name(tag) == tag \o "-del-snapshot"

\* statuses the polling loops wait on (qmp.rs:82-85, 169-172)
WaitingStatuses == {"created", "running", "waiting", "pending"}

\* image.base.snapshots of the one block device as query-block may report
\* it: the field is optional (qmp.rs:123), a VM may leave it out when the
\* image has no snapshot
ReportedSnapshots(ts) ==
    {[some |-> TRUE, names |-> ts]} \cup
    (IF ts = {} THEN {[some |-> FALSE, names |-> {}]} ELSE {})

StartCall(op, tag) == [op |-> op, tag |-> tag, at |-> "query_block", job |-> ""]

\* positions of creator_snapshot
CreatorPcs == {"CrConnect", "CrCheckInit", "CrCheckOnclose", "CrTerminateRdp", "CrStop",
               "CrSave", "CrQuit", "CrZip", "CrCleanup"}

\* CreatorAfterCall that goes on whatever the has-snapshot queries answer
CreatorAfterCallNoCheck(res) ==
    CASE pc = "CrCheckInit" ->
            IF res \in {"true", "false"}
              THEN [pc |-> "CrCheckOnclose", err |-> err, next |-> StartCall("has", ONCLOSE_TAG)]
              ELSE [pc |-> "Failed", err |-> res, next |-> NoCall]
      [] pc = "CrCheckOnclose" ->
            IF res \in {"true", "false"}
              THEN [pc |-> "CrTerminateRdp", err |-> err, next |-> NoCall]
              ELSE [pc |-> "Failed", err |-> res, next |-> NoCall]
      [] pc = "CrSave" ->
            IF res = "Ok" THEN [pc |-> "CrQuit", err |-> err, next |-> NoCall]
            ELSE [pc |-> "Failed", err |-> res, next |-> NoCall]
      [] OTHER ->
            [pc |-> "Failed", err |-> IF res = "Ok" THEN "ZipFailed" ELSE res, next |-> NoCall]

\* what creator_snapshot does when a call of the control client returns
\* res: the two has_snapshot_qmp matches (creator.rs:309-327), the
\* take_snapshot_blocking(..)? (338, 341), and on the failure path of the
\* zip the delete_snapshot_blocking(..)? before return Err(e) (353-359)
CreatorAfterCall(res) ==
    CASE pc = "CrCheckInit" ->
            IF res = "true" THEN [pc |-> "Failed", err |-> "SnapshotExists", next |-> NoCall]
            ELSE IF res = "false"
              THEN [pc |-> "CrCheckOnclose", err |-> err, next |-> StartCall("has", ONCLOSE_TAG)]
            ELSE [pc |-> "Failed", err |-> res, next |-> NoCall]
      [] pc = "CrCheckOnclose" ->
            IF res = "true" THEN [pc |-> "Failed", err |-> "SnapshotExists", next |-> NoCall]
            ELSE IF res = "false"
              THEN [pc |-> "CrTerminateRdp", err |-> err, next |-> NoCall]
            ELSE [pc |-> "Failed", err |-> res, next |-> NoCall]
      [] pc = "CrSave" ->
            IF res = "Ok" THEN [pc |-> "CrQuit", err |-> err, next |-> NoCall]
            ELSE [pc |-> "Failed", err |-> res, next |-> NoCall]
      [] OTHER ->
            [pc |-> "Failed", err |-> IF res = "Ok" THEN "ZipFailed" ELSE res, next |-> NoCall]

\* AfterCall with the result of the delete returned like that of the save
\* (delete_snapshot_blocking(..)? in place of let _ =)
AfterCallDeleteFatal(res) ==
    IF pc = "Snapshotting"
      THEN LET calls == TeardownCalls(snapshot_mode)
               done == Len(callLog) + 1 IN
           IF res # "Ok"
             THEN [pc |-> "Failed", err |-> res, next |-> NoCall]
           ELSE IF done < Len(calls)
             THEN [pc |-> pc, err |-> err, next |-> StartCall(calls[done + 1], ONCLOSE_TAG)]
           ELSE [pc |-> "Quit", err |-> err, next |-> NoCall]
      ELSE IF pc \in CreatorPcs THEN CreatorAfterCall(res)
      ELSE [pc |-> pc, err |-> err, next |-> NoCall]

\* what the caller does when a snapshot-client call returns res.  In the
\* teardown of launch (launch.rs:463-468) the result of the delete is
\* dropped (let _ =), a failed save is returned (?), and quit follows the
\* last call; creator_snapshot goes on as CreatorAfterCall says; any other
\* caller gets the result back.
AfterCall(res) ==
    IF pc = "Snapshotting"
      THEN LET calls == TeardownCalls(snapshot_mode)
               done == Len(callLog) + 1 IN
           IF qcall.op = "save" /\ res # "Ok"
             THEN [pc |-> "Failed", err |-> res, next |-> NoCall]
           ELSE IF done < Len(calls)
             THEN [pc |-> pc, err |-> err, next |-> StartCall(calls[done + 1], ONCLOSE_TAG)]
           ELSE [pc |-> "Quit", err |-> err, next |-> NoCall]
      ELSE IF pc \in CreatorPcs THEN CreatorAfterCall(res)
      ELSE [pc |-> pc, err |-> err, next |-> NoCall]

Return(res) ==
    /\ callLog' = Append(callLog, [op |-> qcall.op, tag |-> qcall.tag, res |-> res])
    /\ pc' = AfterCall(res).pc
    /\ err' = AfterCall(res).err
    /\ qcall' = AfterCall(res).next

\* QueryBlock without the look at the number of devices
QueryBlockNoCount ==
    /\ qcall.at = "query_block" /\ ~Returned
    /\ IF qmp_ready
         THEN \E snaps \in ReportedSnapshots(tags) :
              CASE qcall.op = "has" ->
                      Return(IF snaps.some /\ qcall.tag \in snaps.names
                               THEN "true" ELSE "false")
                [] qcall.op = "delete" /\ snaps.some /\ qcall.tag \notin snaps.names ->
                      Return("SnapshotNotFound")
                [] OTHER ->
                      /\ qcall' = [qcall EXCEPT !.at = "submit"]
                      /\ UNCHANGED <<callLog, pc, err>>
         ELSE Return("QmpFailed")
    /\ UNCHANGED <<appVars, prior, notif_shown, free_port, boot, tagsAtBoot, qemu_child,
                   qmp_ready, jobs, cmdLog, brokerVars>>

\* qmp.execute(query_block) and the count of inserted devices, which begin
\* all three operations; then has_snapshot_qmp answers from the snapshot
\* list, delete_snapshot_blocking looks the tag up in it, and
\* take_snapshot_blocking goes on (qmp.rs:25-48, 102-136, 189-220)
QueryBlock ==
    /\ qcall.at = "query_block" /\ ~Returned
    /\ IF qmp_ready /\ nBlocks = 1
         THEN \E snaps \in ReportedSnapshots(tags) :
              CASE qcall.op = "has" ->
                      Return(IF snaps.some /\ qcall.tag \in snaps.names
                               THEN "true" ELSE "false")
                [] qcall.op = "delete" /\ snaps.some /\ qcall.tag \notin snaps.names ->
                      Return("SnapshotNotFound")
                [] OTHER ->
                      /\ qcall' = [qcall EXCEPT !.at = "submit"]
                      /\ UNCHANGED <<callLog, pc, err>>
         ELSE Return(IF qmp_ready THEN "BlockDeviceCount" ELSE "QmpFailed")
    /\ UNCHANGED <<appVars, prior, notif_shown, free_port, boot, tagsAtBoot, qemu_child,
                   qmp_ready, jobs, cmdLog, brokerVars>>

\* qmp.execute(snapshot_save {..}) / qmp.execute(snapshot_delete {..})
\* (qmp.rs:50-58, 138-145); the VM refuses a job id that is in its list
SubmitJob ==
    /\ qcall.at = "submit" /\ ~Returned
    /\ LET job == IF qcall.op = "save" THEN save_job_name(qcall.tag)
                  ELSE delete_job_name(qcall.tag) IN
       IF qmp_ready
         THEN /\ cmdLog' = Append(cmdLog, <<IF qcall.op = "save" THEN "snapshot-save"
                                              ELSE "snapshot-delete", qcall.tag>>)
              /\ IF job \in DOMAIN jobs
                   THEN Return("CommandFailed") /\ jobs' = jobs
                   ELSE /\ jobs' = [j \in DOMAIN jobs \cup {job} |->
                                      IF j = job
                                        THEN [op |-> qcall.op, tag |-> qcall.tag,
                                              status |-> "created", error |-> ""]
                                        ELSE jobs[j]]
                        /\ qcall' = [qcall EXCEPT !.at = "poll", !.job = job]
                        /\ UNCHANGED <<callLog, pc, err>>
         ELSE Return("QmpFailed") /\ UNCHANGED <<cmdLog, jobs>>
    /\ UNCHANGED <<appVars, prior, notif_shown, free_port, boot, tagsAtBoot, qemu_child,
                   qmp_ready, brokerVars>>

\* PollJob with pending taken for the end of the job
PollJobPendingIsDone ==
    /\ qcall.at = "poll" /\ ~Returned
    /\ IF ~qmp_ready THEN Return("QmpFailed")
       ELSE IF qcall.job \notin DOMAIN jobs THEN Return("JobNotFound")
       ELSE LET job == jobs[qcall.job] IN
            IF job.status \in {"concluded", "pending"}
              THEN IF job.error # "" THEN Return("JobFailed: " \o job.error)
                   ELSE Return("Ok")
            ELSE IF job.status \in WaitingStatuses
              THEN UNCHANGED <<qcall, callLog, pc, err>>
            ELSE Return("UnknownState")
    /\ UNCHANGED <<appVars, prior, notif_shown, free_port, boot, tagsAtBoot, qemu_child,
                   qmp_ready, jobs, cmdLog, brokerVars>>

\* PollJob with a status it does not know taken for one to wait on
PollJobUnknownWaits ==
    /\ qcall.at = "poll" /\ ~Returned
    /\ IF ~qmp_ready THEN Return("QmpFailed")
       ELSE IF qcall.job \notin DOMAIN jobs THEN Return("JobNotFound")
       ELSE LET job == jobs[qcall.job] IN
            IF job.status = "concluded"
              THEN IF job.error # "" THEN Return("JobFailed: " \o job.error)
                   ELSE Return("Ok")
            ELSE UNCHANGED <<qcall, callLog, pc, err>>
    /\ UNCHANGED <<appVars, prior, notif_shown, free_port, boot, tagsAtBoot, qemu_child,
                   qmp_ready, jobs, cmdLog, brokerVars>>

\* one turn of the polling loop: query-jobs, find the job, match on its
\* status (qmp.rs:61-93, 148-180)
PollJob ==
    /\ qcall.at = "poll" /\ ~Returned
    /\ IF ~qmp_ready THEN Return("QmpFailed")
       ELSE IF qcall.job \notin DOMAIN jobs THEN Return("JobNotFound")
       ELSE LET job == jobs[qcall.job] IN
            IF job.status = "concluded"
              THEN IF job.error # "" THEN Return("JobFailed: " \o job.error)
                   ELSE Return("Ok")
            ELSE IF job.status \in WaitingStatuses
              THEN UNCHANGED <<qcall, callLog, pc, err>>
            ELSE Return("UnknownState")
    /\ UNCHANGED <<appVars, prior, notif_shown, free_port, boot, tagsAtBoot, qemu_child,
                   qmp_ready, jobs, cmdLog, brokerVars>>

\* ----------------------------------------------------- the VM's jobs
NextStatus(st) ==
    CASE st = "created" -> "running"
      [] st = "running" -> "waiting"
      [] st = "waiting" -> "pending"
      [] st = "pending" -> "concluded"

\* a job of the VM moves on; on conclusion a save has added its tag and a
\* delete has removed it, or the job carries an error.  Saving a tag that
\* exists is an error of the VM's own.
JobAdvance(j) ==
    /\ j \in DOMAIN jobs
    /\ qemu_child = "running"
    /\ jobs[j].status \in WaitingStatuses
    /\ LET job == jobs[j]
           nx == NextStatus(job.status) IN
       IF nx # "concluded"
         THEN jobs' = [jobs EXCEPT ![j].status = nx] /\ tags' = tags
         ELSE \/ /\ job.op = "save" /\ job.tag \in tags
                 /\ jobs' = [jobs EXCEPT ![j].status = nx, ![j].error = "snapshot exists"]
                 /\ tags' = tags
              \/ /\ job.op = "save" /\ job.tag \notin tags
                 /\ jobs' = [jobs EXCEPT ![j].status = nx]
                 /\ tags' = tags \cup {job.tag}
              \/ /\ job.op = "delete"
                 /\ jobs' = [jobs EXCEPT ![j].status = nx]
                 /\ tags' = tags \ {job.tag}
              \/ /\ jobs' = [jobs EXCEPT ![j].status = nx, ![j].error = "disk full"]
                 /\ tags' = tags
    /\ UNCHANGED <<snapshot_mode, launchNo, prev, nBlocks, attachers, unix_path_arg,
                   escaped_path, installerVars, orchVars, brokerVars, qcall, cmdLog, callLog>>

\* a job of the VM enters a status the polling loops do not know
JobAborts(j) ==
    /\ j \in DOMAIN jobs
    /\ qemu_child = "running"
    /\ jobs[j].status \in {"running", "waiting"}
    /\ jobs' = [jobs EXCEPT ![j].status = "aborting"]
    /\ UNCHANGED <<appVars, orchVars, brokerVars, qcall, cmdLog, callLog>>

\* a concluded job leaves the VM's job list: it was dismissed (job-dismiss)
\* over another monitor before the polling loop looked again
JobDismissed(j) ==
    /\ j \in DOMAIN jobs
    /\ qemu_child = "running"
    /\ jobs[j].status = "concluded"
    /\ jobs' = [k \in DOMAIN jobs \ {j} |-> jobs[k]]
    /\ UNCHANGED <<appVars, orchVars, brokerVars, qcall, cmdLog, callLog>>

\* ----------------------------------------------------- launch: teardown
\* UnixStream::connect(qmp_socket_path) and the handshake (launch.rs:447-452)
TeardownConnect ==
    /\ pc = "TeardownConnect"
    /\ IF qmp_ready
         THEN pc' = "TeardownPolicy" /\ err' = err
         ELSE pc' = "Failed" /\ err' = "QmpConnectFailed"
    /\ UNCHANGED <<appVars, prior, notif_shown, free_port, boot, tagsAtBoot, qemu_child,
                   qmp_ready, qmpVars, brokerVars>>

\* a teardown that makes its snapshot calls on appack-init
ApplyTeardownPolicyInitTag ==
    /\ pc = "TeardownPolicy"
    /\ LET calls == TeardownCalls(snapshot_mode) IN
       IF calls = <<>>
         THEN pc' = "Quit" /\ qcall' = qcall
         ELSE pc' = "Snapshotting" /\ qcall' = StartCall(calls[1], INIT_TAG)
    /\ UNCHANGED <<appVars, err, prior, notif_shown, free_port, boot, tagsAtBoot, qemu_child,
                   qmp_ready, jobs, cmdLog, callLog, brokerVars>>

\* the teardown match (launch.rs:454-468): the first call is begun
ApplyTeardownPolicy ==
    /\ pc = "TeardownPolicy"
    /\ LET calls == TeardownCalls(snapshot_mode) IN
       IF calls = <<>>
         THEN pc' = "Quit" /\ qcall' = qcall
         ELSE pc' = "Snapshotting" /\ qcall' = StartCall(calls[1], ONCLOSE_TAG)
    /\ UNCHANGED <<appVars, err, prior, notif_shown, free_port, boot, tagsAtBoot, qemu_child,
                   qmp_ready, jobs, cmdLog, callLog, brokerVars>>

\* Quit with no kill after a quit command that failed
QuitNoKill ==
    /\ pc = "Quit"
    /\ \/ /\ qemu_child = "running" /\ qmp_ready
          /\ cmdLog' = Append(cmdLog, <<"quit", "Ok">>)
          /\ qemu_child' = "exited"
       \/ /\ cmdLog' = Append(cmdLog, <<"quit", "Err">>)
          /\ qemu_child' = qemu_child
    /\ qmp_ready' = FALSE
    /\ pc' = "Done"
    /\ UNCHANGED <<appVars, err, prior, notif_shown, free_port, boot, tagsAtBoot, qcall, jobs,
                   callLog, brokerVars>>

\* match qmp.execute(quit) (launch.rs:470-484): on Ok launch waits for the
\* VM process to exit, on Err (the VM is gone, or does not answer) it kills
\* the process; then it returns Ok
Quit ==
    /\ pc = "Quit"
    /\ \/ /\ qemu_child = "running" /\ qmp_ready
          /\ cmdLog' = Append(cmdLog, <<"quit", "Ok">>)
          /\ qemu_child' = "exited"
       \/ /\ cmdLog' = Append(cmdLog, <<"quit", "Err">>)
          /\ qemu_child' = IF qemu_child = "running" THEN "killed" ELSE qemu_child
    /\ qmp_ready' = FALSE
    /\ pc' = "Done"
    /\ UNCHANGED <<appVars, err, prior, notif_shown, free_port, boot, tagsAtBoot, qcall, jobs,
                   callLog, brokerVars>>

\* ------------------------------------------------------- specifications
FreshBroker ==
    /\ lst = "unspawned" /\ lstWhy = "none"
    /\ client_count = 0 /\ chan = 0 /\ backlog = <<>>
    /\ srv = [c \in Conns |-> "none"]
    /\ hc = [c \in Conns |-> -1]
    /\ hdec = [c \in Conns |-> -1]
    /\ cli = [c \in Conns |-> "idle"]
    /\ inbuf = [c \in Conns |-> 0]
    /\ portbuf = [c \in Conns |-> <<>>]
    /\ cport = [c \in Conns |-> 0]
    /\ sent = 0

FreshControl ==
    /\ qcall = NoCall /\ jobs = <<>> /\ cmdLog = <<>> /\ callLog = <<>>

\* launch is entered (launch.rs:281-294)
Init ==
    /\ snapshot_mode \in Modes
    /\ tags \in SUBSET AllTags
    /\ launchNo = 1 /\ prev = NoPrev
    /\ nBlocks = 1
    /\ attachers = {}
    /\ unix_path_arg = <<>> /\ escaped_path = <<>>
    /\ NoInstaller
    /\ pc = "TryAttach" /\ err = ""
    /\ prior \in {"none", "stale", "live", "closing"}
    /\ sockFile = CASE prior = "stale" -> "stale" [] prior = "live" -> "other"
                    [] OTHER -> "absent"
    /\ notif_shown = FALSE /\ free_port = 0 /\ boot = "none" /\ tagsAtBoot = {}
    /\ qemu_child = "none" /\ qmp_ready = FALSE
    /\ FreshBroker
    /\ FreshControl

\* a new process: no broker thread, no control session, a new VM's job list
ResetBroker ==
    /\ lst' = "unspawned" /\ lstWhy' = "none"
    /\ client_count' = 0 /\ chan' = 0 /\ backlog' = <<>>
    /\ srv' = [c \in Conns |-> "none"]
    /\ hc' = [c \in Conns |-> -1]
    /\ hdec' = [c \in Conns |-> -1]
    /\ cli' = [c \in Conns |-> "idle"]
    /\ inbuf' = [c \in Conns |-> 0]
    /\ portbuf' = [c \in Conns |-> <<>>]
    /\ cport' = [c \in Conns |-> 0]
    /\ sent' = 0

ResetControl ==
    /\ qcall' = NoCall /\ jobs' = <<>> /\ cmdLog' = <<>> /\ callLog' = <<>>

\* the same installed app is launched again after launch returned
Relaunch ==
    /\ Returned
    /\ launchNo < MaxLaunches
    /\ launchNo' = launchNo + 1
    /\ prev' = [boot |-> boot, calls |-> callLog, pc |-> pc, tags0 |-> tagsAtBoot]
    /\ pc' = "TryAttach" /\ err' = ""
    /\ prior' = CASE qemu_child = "running" -> "orphan"
                  [] sockFile = "other" -> "live"
                  [] prior = "cleaned" -> "none"
                  [] OTHER -> prior
    /\ sockFile' = sockFile
    /\ notif_shown' = FALSE /\ free_port' = 0 /\ boot' = "none" /\ tagsAtBoot' = {}
    /\ qemu_child' = "none" /\ qmp_ready' = FALSE
    /\ ResetBroker /\ ResetControl
    /\ UNCHANGED <<snapshot_mode, tags, nBlocks, attachers, unix_path_arg, escaped_path,
                   installerVars>>

\* display clients of other launch invocations
Attachers ==
    \/ \E c \in Conns : ClientConnect(c)
    \/ \E c \in Conns : ClientSendByte(c)

\* the broker's threads and the clients it serves
Broker ==
    \/ \E c \in Conns : ClientGotPort(c)
    \/ \E c \in Conns : ClientExit(c)
    \/ LBind
    \/ LAccept
    \/ LAcceptError
    \/ LTryRecv
    \/ LCleanup
    \/ \E c \in Conns : HWrite(c)
    \/ \E c \in Conns : HRead(c)
    \/ \E c \in Conns : HFetchSub(c)
    \/ \E c \in Conns : HLoad(c)
    \/ \E c \in Conns : HSend(c)

Next ==
    \/ TryAttach \/ RemoteClient \/ AwaitPrior \/ PriorSessionEnds \/ ForeignBind
    \/ ChoosePort \/ ApplyBootPolicy \/ SpawnVM \/ VmBecomesReady \/ VmDies
    \/ AwaitControlSocketReady \/ StartBroker \/ AttachLocalClient \/ LocalReadFails
    \/ Join \/ TeardownConnect \/ ApplyTeardownPolicy
    \/ QueryBlock \/ SubmitJob \/ PollJob
    \/ (\E j \in DOMAIN jobs : JobAdvance(j))
    \/ (\E j \in DOMAIN jobs : JobAborts(j))
    \/ (\E j \in DOMAIN jobs : JobDismissed(j))
    \/ Quit \/ Relaunch
    \/ Broker

Spec == Init /\ [][Next]_vars

\* the broker of one session, from the moment launch starts it with the VM
\* up (launch.rs:428) until the orchestrator's teardown begins
InitBroker ==
    /\ snapshot_mode = "OnClose"
    /\ tags = {}
    /\ launchNo = 1 /\ prev = NoPrev
    /\ nBlocks = 1
    /\ attachers = 1..MaxClients
    /\ unix_path_arg = <<>> /\ escaped_path = <<>>
    /\ NoInstaller
    /\ pc = "StartBroker" /\ err = ""
    /\ prior = "none" /\ sockFile = "absent"
    /\ notif_shown = FALSE /\ free_port \in Ports /\ boot = "ColdBoot" /\ tagsAtBoot = {}
    /\ qemu_child = "running" /\ qmp_ready = TRUE
    /\ FreshBroker
    /\ FreshControl

NextBroker ==
    \/ ForeignBind \/ StartBroker \/ AttachLocalClient \/ LocalReadFails
    \/ Join \/ TeardownConnect
    \/ Broker
    \/ Attachers

SpecBroker == InitBroker /\ [][NextBroker]_vars

\* the listener thread is scheduled: each turn of its loop comes to its
\* end (accept is non-blocking, the sleep is 500 ms)
SpecBrokerFair ==
    /\ InitBroker /\ [][NextBroker]_vars
    /\ WF_vars(LAccept) /\ WF_vars(LTryRecv) /\ WF_vars(LCleanup)

\* the startup message of the broker protocol for every display port the
\* OS may assign (get_os_assigned_port binds port 0, so never 0 itself):
\* the broker is started, the local client attaches and is handed the port
InitWire ==
    /\ snapshot_mode = "NeverLoad"
    /\ tags = {}
    /\ launchNo = 1 /\ prev = NoPrev
    /\ nBlocks = 1
    /\ attachers = {}
    /\ unix_path_arg = <<>> /\ escaped_path = <<>>
    /\ NoInstaller
    /\ pc = "StartBroker" /\ err = ""
    /\ prior = "none" /\ sockFile = "absent"
    /\ notif_shown = FALSE /\ free_port \in 1..65535 /\ boot = "ColdBoot" /\ tagsAtBoot = {}
    /\ qemu_child = "running" /\ qmp_ready = TRUE
    /\ FreshBroker
    /\ FreshControl

NextWire ==
    \/ StartBroker \/ LBind \/ AttachLocalClient \/ LAccept
    \/ HWrite(LocalConn) \/ ClientGotPort(LocalConn)

SpecWire == InitWire /\ [][NextWire]_vars

\* ----------------------------------------------------------------------
\* creator_snapshot (creator.rs:300-364): packaging from a running VM
\* UnixStream::connect and the handshake, then the first has_snapshot_qmp
\* (creator.rs:304-309)
CreatorConnect ==
    /\ pc = "CrConnect"
    /\ IF qmp_ready
         THEN pc' = "CrCheckInit" /\ err' = err /\ qcall' = StartCall("has", INIT_TAG)
         ELSE pc' = "Failed" /\ err' = "QmpConnectFailed" /\ qcall' = qcall
    /\ UNCHANGED <<appVars, prior, notif_shown, free_port, boot, tagsAtBoot, qemu_child,
                   qmp_ready, jobs, cmdLog, callLog, brokerVars>>

\* terminate_xfreerdp3()? (creator.rs:330, 67-100): the display clients
\* are killed, or the pid listing fails
CreatorTerminateRdp ==
    /\ pc = "CrTerminateRdp"
    /\ \/ /\ cli' = [c \in Conns |-> IF cli[c] = "gotport" THEN "closed" ELSE cli[c]]
          /\ pc' = "CrStop" /\ err' = err
       \/ /\ cli' = cli
          /\ pc' = "Failed" /\ err' = "TerminateFailed"
    /\ UNCHANGED <<appVars, prior, notif_shown, free_port, boot, tagsAtBoot, qemu_child,
                   qmp_ready, qmpVars, lst, lstWhy, sockFile, client_count, chan, backlog,
                   srv, hc, hdec, inbuf, portbuf, cport, sent>>

\* qmp.execute(stop) and the match on config.snapshot that follows
\* (creator.rs:333-344)
CreatorStop ==
    /\ pc = "CrStop"
    /\ IF qmp_ready
         THEN /\ cmdLog' = Append(cmdLog, <<"stop", "">>)
              /\ err' = err
              /\ IF snapshot_mode = "NeverLoad"
                   THEN pc' = "CrQuit" /\ qcall' = qcall
                   ELSE pc' = "CrSave" /\ qcall' = StartCall("save", INIT_TAG)
         ELSE /\ pc' = "Failed" /\ err' = "StopFailed"
              /\ UNCHANGED <<cmdLog, qcall>>
    /\ UNCHANGED <<appVars, prior, notif_shown, free_port, boot, tagsAtBoot, qemu_child,
                   qmp_ready, jobs, callLog, brokerVars>>

\* qmp.execute(quit) (creator.rs:347): the VM goes away
CreatorQuit ==
    /\ pc = "CrQuit"
    /\ IF qmp_ready
         THEN /\ cmdLog' = Append(cmdLog, <<"quit", "Ok">>)
              /\ qemu_child' = "exited" /\ qmp_ready' = FALSE
              /\ pc' = "CrZip" /\ err' = err
         ELSE /\ pc' = "Failed" /\ err' = "QuitFailed"
              /\ UNCHANGED <<cmdLog, qemu_child, qmp_ready>>
    /\ UNCHANGED <<appVars, prior, notif_shown, free_port, boot, tagsAtBoot, qcall, jobs,
                   callLog, brokerVars>>

\* match zip_appack(&config) (creator.rs:350-361): on Err the cleanup
\* begins with delete_snapshot_blocking(appack-init)
CreatorZip ==
    /\ pc = "CrZip"
    /\ \/ pc' = "Done" /\ qcall' = qcall
       \/ pc' = "CrCleanup" /\ qcall' = StartCall("delete", INIT_TAG)
    /\ UNCHANGED <<appVars, err, prior, notif_shown, free_port, boot, tagsAtBoot, qemu_child,
                   qmp_ready, jobs, cmdLog, callLog, brokerVars>>

\* creator_snapshot is entered with the VM of creator_boot running and its
\* display client attached; tagsAtBoot keeps the image's tags at entry
InitCreator ==
    /\ snapshot_mode \in Modes
    /\ tags \in SUBSET AllTags
    /\ launchNo = 1 /\ prev = NoPrev
    /\ nBlocks \in 1..2
    /\ attachers = {}
    /\ unix_path_arg = <<>> /\ escaped_path = <<>>
    /\ NoInstaller
    /\ pc = "CrConnect" /\ err = ""
    /\ prior = "none" /\ sockFile = "absent"
    /\ notif_shown = FALSE /\ free_port \in Ports /\ boot = "ColdBoot" /\ tagsAtBoot = tags
    /\ qemu_child = "running" /\ qmp_ready = TRUE
    /\ lst = "unspawned" /\ lstWhy = "none"
    /\ client_count = 0 /\ chan = 0 /\ backlog = <<>>
    /\ srv = [c \in Conns |-> "none"]
    /\ hc = [c \in Conns |-> -1]
    /\ hdec = [c \in Conns |-> -1]
    /\ cli = [c \in Conns |-> IF c = LocalConn THEN "gotport" ELSE "idle"]
    /\ inbuf = [c \in Conns |-> 0]
    /\ portbuf = [c \in Conns |-> <<>>]
    /\ cport = [c \in Conns |-> 0]
    /\ sent = 0
    /\ FreshControl

NextCreator ==
    \/ CreatorConnect \/ CreatorTerminateRdp \/ CreatorStop \/ CreatorQuit \/ CreatorZip
    \/ QueryBlock \/ SubmitJob \/ PollJob
    \/ (\E j \in DOMAIN jobs : JobAdvance(j))
    \/ (\E j \in DOMAIN jobs : JobAborts(j))
    \/ (\E j \in DOMAIN jobs : JobDismissed(j))

SpecCreator == InitCreator /\ [][NextCreator]_vars

\* ----------------------------------------------------------------------
\* the snapshot control client on one control session: a caller that makes
\* save, delete and has-snapshot calls one after another, as
\* creator_snapshot (creator.rs:309-353) and launch (launch.rs:464-465) do
CallerCalls ==
    /\ pc = "Caller"
    /\ qcall = NoCall
    /\ Len(callLog) < MaxCalls
    /\ \E op \in {"save", "delete", "has"}, tag \in {INIT_TAG, ONCLOSE_TAG} :
          qcall' = StartCall(op, tag)
    /\ UNCHANGED <<appVars, orchVars, brokerVars, jobs, cmdLog, callLog>>

InitQmp ==
    /\ snapshot_mode = "OnClose"
    /\ tags \in SUBSET AllTags
    /\ launchNo = 1 /\ prev = NoPrev
    /\ nBlocks \in 0..2
    /\ attachers = {}
    /\ unix_path_arg = <<>> /\ escaped_path = <<>>
    /\ NoInstaller
    /\ pc = "Caller" /\ err = ""
    /\ prior = "none" /\ sockFile = "absent"
    /\ notif_shown = FALSE /\ free_port = 0 /\ boot = "none" /\ tagsAtBoot = {}
    /\ qemu_child = "running" /\ qmp_ready = TRUE
    /\ FreshBroker
    /\ FreshControl

NextQmp ==
    \/ CallerCalls
    \/ QueryBlock \/ SubmitJob \/ PollJob
    \/ (\E j \in DOMAIN jobs : JobAdvance(j))
    \/ (\E j \in DOMAIN jobs : JobAborts(j))
    \/ (\E j \in DOMAIN jobs : JobDismissed(j))

SpecQmp == InitQmp /\ [][NextQmp]_vars

\* reset (reset.rs:21-45): qemu-img snapshot -d appack-onclose on the
\* app's image.  qemu-img exits with an error, and reset returns Err with
\* the image untouched, when a VM holds the image or the tag is absent.
Reset ==
    /\ tags' = IF /\ qemu_child # "running"
                  /\ prior \notin {"live", "closing", "orphan"}
                  /\ ONCLOSE_TAG \in tags
               THEN tags \ {ONCLOSE_TAG}
               ELSE tags
    /\ UNCHANGED <<snapshot_mode, launchNo, prev, nBlocks, attachers, unix_path_arg,
                   escaped_path, installerVars, orchVars, brokerVars, qmpVars>>

\* launches of an app with resets between and during them
NextReset == Next \/ Reset

SpecReset == Init /\ [][NextReset]_vars

\* a session under fair scheduling: launch, the listener thread and the
\* handler threads each take their next step, a client reads the port it
\* was sent, and a client that attached closes its connection in the end.
\* Nothing obliges a further client to connect.
SpecSessionFair ==
    /\ InitBroker /\ [][NextBroker]_vars
    /\ WF_vars(StartBroker) /\ WF_vars(AttachLocalClient) /\ WF_vars(LocalReadFails)
    /\ WF_vars(Join) /\ WF_vars(TeardownConnect)
    /\ WF_vars(LBind) /\ WF_vars(LAccept) /\ WF_vars(LTryRecv) /\ WF_vars(LCleanup)
    /\ \A c \in Conns :
           /\ WF_vars(HWrite(c)) /\ WF_vars(HRead(c)) /\ WF_vars(HFetchSub(c))
           /\ WF_vars(HLoad(c)) /\ WF_vars(HSend(c))
           /\ WF_vars(ClientGotPort(c)) /\ WF_vars(ClientExit(c))

\* ---------------------------------------------- to_win_escaped_path
\* Strings are sequences of one-character strings.
MaxPathTokens == 5

\* const PREFIX: &str = "\\\\tsclient\\home\\"  (launch.rs:36)
PREFIX == <<"\\", "\\", "t", "s", "c", "l", "i", "e", "n", "t", "\\", "h", "o", "m", "e", "\\">>

\* str::starts_with / str::ends_with with a string pattern
starts_with(s, p) == Len(s) >= Len(p) /\ SubSeq(s, 1, Len(p)) = p
ends_with(s, p) == Len(s) >= Len(p) /\ SubSeq(s, Len(s) - Len(p) + 1, Len(s)) = p

\* str::find(char): the zero-based index of the first match, -1 for None
find(s, ch) ==
    IF \E i \in 1..Len(s) : s[i] = ch
    THEN (CHOOSE i \in 1..Len(s) : s[i] = ch /\ \A k \in 1..(i - 1) : s[k] # ch) - 1
    ELSE -1

\* str::trim_start_matches(char)
RECURSIVE trim_start_matches(_, _)
trim_start_matches(s, ch) ==
    IF s # <<>> /\ s[1] = ch THEN trim_start_matches(Tail(s), ch) ELSE s

\* str::replace(char, one-character string)
replace(s, from, to) == [i \in 1..Len(s) |-> IF s[i] = from THEN to ELSE s[i]]

\* &s[from..] with a zero-based start
slice_from(s, from) == SubSeq(s, from + 1, Len(s))

\* to_win_escaped_path without the replacement of '/'
to_win_escaped_path_NoReplace(path) ==
    IF path = <<>> THEN <<>>
    ELSE LET unquoted == IF starts_with(path, <<"'">>) /\ ends_with(path, <<"'">>)
                            /\ Len(path) >= 2
                         THEN SubSeq(path, 2, Len(path) - 1) ELSE path
             stripped_path ==
                 IF starts_with(unquoted, <<"/", "h", "o", "m", "e", "/">>)
                    /\ find(slice_from(unquoted, 6), "/") # -1
                 THEN slice_from(unquoted, 6 + find(slice_from(unquoted, 6), "/") + 1)
                 ELSE unquoted
         IN  PREFIX \o trim_start_matches(stripped_path, "/")

\* to_win_escaped_path (launch.rs:35-59)
to_win_escaped_path(path) ==
    IF path = <<>> THEN <<>>
    ELSE LET \* path[1..path.len() - 1] when wrapped in single quotes
             unquoted == IF starts_with(path, <<"'">>) /\ ends_with(path, <<"'">>)
                            /\ Len(path) >= 2
                         THEN SubSeq(path, 2, Len(path) - 1) ELSE path
             \* the part after "/home/<user>/" when there is a '/' after the user
             stripped_path ==
                 IF starts_with(unquoted, <<"/", "h", "o", "m", "e", "/">>)
                    /\ find(slice_from(unquoted, 6), "/") # -1
                 THEN slice_from(unquoted, 6 + find(slice_from(unquoted, 6), "/") + 1)
                 ELSE unquoted
             clean_path == trim_start_matches(stripped_path, "/")
             windows_style_path == replace(clean_path, "/", "\\")
         IN  PREFIX \o windows_style_path

\* the pieces the paths under check are made of: how a path begins and
\* the tokens that follow
PathHeads == {<<>>, <<"/", "h", "o", "m", "e", "/">>, <<"/", "h", "o", "m", "e">>,
              <<"h", "o", "m", "e">>}
PathTokens == {<<"/">>, <<"u">>, <<"a", " ", "b">>, <<"'">>}

RECURSIVE Concat(_)
Concat(ts) == IF ts = <<>> THEN <<>> ELSE Head(ts) \o Concat(Tail(ts))

\* a path wrapped in one pair of single quotes
Quoted(p) == <<"'">> \o p \o <<"'">>

PlainPaths == {h \o Concat(ts) : h \in PathHeads,
                                 ts \in UNION {[1..n -> PathTokens] : n \in 0..MaxPathTokens}}
PathArgs == PlainPaths \cup {Quoted(p) : p \in PlainPaths}

\* detect_and_replace_win_escape hands the marker's argument to
\* to_win_escaped_path (launch.rs:75-76)
EscapePath ==
    /\ pc = "EscapePath"
    /\ escaped_path' = to_win_escaped_path(unix_path_arg)
    /\ pc' = "Escaped"
    /\ UNCHANGED <<snapshot_mode, tags, launchNo, prev, nBlocks, attachers, unix_path_arg,
                   installerVars, err, prior, notif_shown, free_port, boot, tagsAtBoot,
                   qemu_child, qmp_ready, brokerVars, qmpVars>>

InitPath ==
    /\ snapshot_mode = "Never"
    /\ tags = {}
    /\ launchNo = 1 /\ prev = NoPrev
    /\ nBlocks = 1
    /\ attachers = {}
    /\ unix_path_arg \in PathArgs /\ escaped_path = <<>>
    /\ NoInstaller
    /\ pc = "EscapePath" /\ err = ""
    /\ prior = "none" /\ sockFile = "absent"
    /\ notif_shown = FALSE /\ free_port \in Ports /\ boot = "none" /\ tagsAtBoot = {}
    /\ qemu_child = "running" /\ qmp_ready = TRUE
    /\ FreshBroker
    /\ FreshControl

NextPath == EscapePath

SpecPath == InitPath /\ [][NextPath]_vars

\* ---------------------------------------------------------- installer
AppIds == {"app-a", "app-b"}

\* versions an archive's AppPack.yaml may carry; the last is not valid
Versions == {<<"1">>, <<"2">>, <<"1", "/", "0">>}

\* uninstall without --version
NoVersion == <<>>

\* AppBuildConfig::is_valid_version (app_build_config.rs:99-109); the
\* grave accent, which a TLA+ string cannot hold, is written GRAVE
forbidden_chars == {"/", "\\", ":", "*", "?", "\"", "<", ">", "|", " ", "&", ";", "GRAVE", "$"}
is_valid_version(version) == ~\E i \in 1..Len(version) : version[i] \in forbidden_chars

\* get_installed (local_settings.rs:82-101): the list, or an error when
\* the file does not parse
get_installed ==
    IF installed_yaml.parses
      THEN [ok |-> TRUE, installed |-> installed_yaml.installed]
      ELSE [ok |-> FALSE, installed |-> <<>>]

\* save_installed (local_settings.rs:103-113): std::fs::write opens the
\* file with truncation and then writes.  It succeeds; or the open fails
\* and the file is as before; or the write fails after the truncation and
\* the file is left cut short, which reads back as a parse error or, for
\* an empty file, as an empty list.
SaveOutcomes(list) ==
    {[ok |-> TRUE, file |-> [parses |-> TRUE, installed |-> list]],
     [ok |-> FALSE, file |-> installed_yaml],
     [ok |-> FALSE, file |-> [parses |-> FALSE, installed |-> <<>>]],
     [ok |-> FALSE, file |-> [parses |-> TRUE, installed |-> <<>>]]}

\* Vec::retain(|e| e.id != app_id)
retain_other_ids(list, app_id) == SelectSeq(list, LAMBDA e : e.id # app_id)

\* install_appack (install_appack.rs:303-318) with check_valid_app_pack
\* (253-301) and extract_files (153-248).  archive: whether the file opens
\* as an archive with a config and holds the required files; extract_ok:
\* whether every file could be written.
install_appack(id, version, archive, extract_ok) ==
    /\ pc = "Installer"
    /\ \E saved \in SaveOutcomes(Append(get_installed.installed,
                                        [id |-> id, version |-> version])) :
         LET got == get_installed
             dir == <<id, version>>
             same(res) == [res |-> res, file |-> installed_yaml, dirs |-> app_dirs]
             outcome ==
                 IF archive = "unreadable" THEN same("ArchiveUnreadable")
                 ELSE IF ~got.ok THEN same("InstalledFileUnreadable")
                 ELSE IF ~is_valid_version(version) THEN same("InvalidVersion")
                 ELSE IF \E i \in 1..Len(got.installed) : got.installed[i].id = id
                   THEN same("AlreadyInstalled")
                 ELSE IF archive = "missing_files" THEN same("MissingFiles")
                 ELSE IF dir \in app_dirs THEN same("DirExists")
                 ELSE IF ~extract_ok
                   THEN [res |-> "ExtractFailed", file |-> installed_yaml,
                         dirs |-> app_dirs \cup {dir}]
                 ELSE IF ~saved.ok
                   THEN [res |-> "SaveFailed", file |-> saved.file,
                         dirs |-> app_dirs \cup {dir}]
                 ELSE [res |-> "Ok", file |-> saved.file, dirs |-> app_dirs \cup {dir}]
         IN  /\ installed_yaml' = outcome.file
             /\ app_dirs' = outcome.dirs
             /\ last_call' = [op |-> "install", res |-> outcome.res]
    /\ UNCHANGED <<snapshot_mode, tags, launchNo, prev, nBlocks, attachers, unix_path_arg,
                   escaped_path, orchVars, brokerVars, qmpVars>>

\* uninstall_appack (uninstall_appack.rs:20-84).  rm_ok: whether the
\* app directory could be removed.
uninstall_appack(app_id, version, rm_ok) ==
    /\ pc = "Installer"
    /\ \E saved \in SaveOutcomes(retain_other_ids(get_installed.installed, app_id)) :
         LET got == get_installed
             app_entries == SelectSeq(got.installed,
                                LAMBDA e : e.id = app_id
                                           /\ (version = NoVersion \/ e.version = version))
             same(res) == [res |-> res, file |-> installed_yaml, dirs |-> app_dirs]
             outcome ==
                 IF ~got.ok THEN same("InstalledFileUnreadable")
                 ELSE IF Len(app_entries) = 0 THEN same("NotInstalled")
                 ELSE IF Len(app_entries) > 1 THEN same("MultipleVersions")
                 ELSE LET dir == <<app_entries[1].id, app_entries[1].version>> IN
                      IF dir \notin app_dirs THEN same("DirMissing")
                      ELSE IF ~rm_ok THEN same("RemoveFailed")
                      ELSE IF ~saved.ok
                        THEN [res |-> "SaveFailed", file |-> saved.file,
                              dirs |-> app_dirs \ {dir}]
                      ELSE [res |-> "Ok", file |-> saved.file, dirs |-> app_dirs \ {dir}]
         IN  /\ installed_yaml' = outcome.file
             /\ app_dirs' = outcome.dirs
             /\ last_call' = [op |-> "uninstall", res |-> outcome.res]
    /\ UNCHANGED <<snapshot_mode, tags, launchNo, prev, nBlocks, attachers, unix_path_arg,
                   escaped_path, orchVars, brokerVars, qmpVars>>

\* a fresh home: nothing installed, no installed file
InitInstaller ==
    /\ snapshot_mode = "Never"
    /\ tags = {}
    /\ launchNo = 1 /\ prev = NoPrev
    /\ nBlocks = 1
    /\ attachers = {}
    /\ unix_path_arg = <<>> /\ escaped_path = <<>>
    /\ NoInstaller
    /\ pc = "Installer" /\ err = ""
    /\ prior = "none" /\ sockFile = "absent"
    /\ notif_shown = FALSE /\ free_port = 0 /\ boot = "none" /\ tagsAtBoot = {}
    /\ qemu_child = "none" /\ qmp_ready = FALSE
    /\ FreshBroker
    /\ FreshControl

NextInstaller ==
    \/ \E id \in AppIds, version \in Versions,
          archive \in {"ok", "unreadable", "missing_files"}, extract_ok \in BOOLEAN :
          install_appack(id, version, archive, extract_ok)
    \/ \E app_id \in AppIds, version \in Versions \cup {NoVersion}, rm_ok \in BOOLEAN :
          uninstall_appack(app_id, version, rm_ok)

SpecInstaller == InitInstaller /\ [][NextInstaller]_vars

\* ======================================================================
\* Properties
\* ======================================================================
\* connections the accept loop has taken from the listen queue
Accepted == {c \in Conns : srv[c] \notin {"none", "backlog"}}

\* launch goes from handle.join() on to the teardown
TeardownBegins == pc = "Join" /\ pc' = "TeardownConnect"

\* a session in which nothing went wrong around the broker: the bind
\* succeeded, accept returned only connections or WouldBlock, every write
\* of the port succeeded and no client sent a byte
FaultFree ==
    /\ lstWhy \notin {"accepterr", "bindfail"}
    /\ sockFile # "other"
    /\ \A c \in Conns : srv[c] # "aborted" /\ inbuf[c] = 0

\* C1: the teardown never begins while the live-connection counter is
\* nonzero (stated for the fault-free sessions, which the claim covers).
C1_TeardownOnlyWithoutClients ==
    [][(TeardownBegins /\ FaultFree) => client_count = 0]_vars

\* C2: a shutdown signal is sent only while the connection count is 0, at
\* most once per session, and only by the handler whose own decrement took
\* the counter from 1 to 0 (stated for the fault-free sessions).
C2_SignalOnceAtLastDetach ==
    [][(sent' # sent /\ FaultFree) =>
         /\ client_count = 0
         /\ sent = 0
         /\ \E c \in Conns : srv[c] = "send" /\ srv'[c] = "done" /\ hdec[c] = 0]_vars

\* C3: once every client has connected and closed and its handler has
\* finished, the counter is 0 and the shutdown signal has fired exactly
\* once (stated for the fault-free sessions).
C3_AllDetachedCountZeroOneSignal ==
    ((\A c \in Conns : cli[c] = "closed" /\ srv[c] = "done") /\ FaultFree)
        => client_count = 0 /\ sent = 1

\* C4: whenever handle.join() returns, a handler has sent a shutdown
\* signal and the accept loop has received it.
C4_JoinOnlyAfterSignal ==
    [][TeardownBegins => sent > 0 /\ lstWhy = "signal"]_vars

\* C5 as stated: after a shutdown signal has been sent, the accept loop
\* accepts no further connection.
C5_NoAcceptAfterSend ==
    [][sent > 0 => Accepted' = Accepted]_vars

\* C5 amended: after the accept loop has received a shutdown signal
\* (try_recv returned a message), it accepts no further connection; a
\* connection that was pending when the signal was sent may still be
\* accepted before that.
C5_NoAcceptAfterReceive ==
    [][lstWhy = "signal" => Accepted' = Accepted]_vars

\* C5 witness: the signal was received and the listener is gone while a
\* client that connected meanwhile is still in the listen queue, with
\* another connection served before
C5_Witness ==
    /\ lstWhy = "signal" /\ lst = "exited"
    /\ \E c \in Conns : srv[c] = "backlog" /\ cli[c] = "connected"
    /\ \E c \in Conns : srv[c] = "done"

\* ------------------------------------------------------------- policy
\* the boot match of this launch has run to its end
PolicyApplied ==
    \/ pc \in {"Spawn", "AwaitQmp", "StartBroker", "AttachLocal", "LocalClient", "Join",
               "TeardownConnect", "TeardownPolicy", "Snapshotting", "Quit"}
    \/ pc = "Done" /\ cmdLog # <<>>
    \/ pc = "Failed" /\ err \notin {"ImageQueryFailed", "PriorNotificationFailed"}

\* the decision table of the specification, section 4.2
TableDecision(mode, onclosePresent, initPresent) ==
    CASE mode = "NeverLoad" -> "ColdBoot"
      [] mode = "Never" /\ initPresent -> INIT_TAG
      [] mode = "Never" /\ ~initPresent -> "NotPackagedProperly"
      [] mode = "OnClose" /\ onclosePresent -> ONCLOSE_TAG
      [] mode = "OnClose" /\ ~onclosePresent /\ initPresent -> INIT_TAG
      [] mode = "OnClose" /\ ~onclosePresent /\ ~initPresent -> "ColdBoot"

\* what the boot match of this launch came to
BootOutcome == IF err = "NotPackagedProperly" THEN err ELSE boot

\* C6: for every trigger mode and every combination of presence of the
\* init and onclose tags, the boot decision launch makes is the one of the
\* table: NeverLoad cold boot; Never with init loads appack-init, without
\* it is the fatal error; OnClose loads appack-onclose when present, else
\* appack-init when present, else cold boot.
C6_BootDecisionTable ==
    PolicyApplied =>
        BootOutcome = TableDecision(snapshot_mode, ONCLOSE_TAG \in tagsAtBoot,
                                    INIT_TAG \in tagsAtBoot)

\* C6 witness: OnClose with both tags present has chosen appack-onclose and
\* the VM runs
C6_Witness ==
    /\ snapshot_mode = "OnClose" /\ {INIT_TAG, ONCLOSE_TAG} \subseteq tagsAtBoot
    /\ boot = ONCLOSE_TAG /\ qemu_child = "running"

\* C7: with mode Never and no appack-init tag on the image, launch fails
\* with the "not packaged properly" error, and has spawned no VM, started
\* no broker and attached no display client of its own session.
C7_NeverWithoutInitFailsBeforeSpawn ==
    (snapshot_mode = "Never" /\ INIT_TAG \notin tagsAtBoot /\ PolicyApplied) =>
        /\ pc = "Failed" /\ err = "NotPackagedProperly"
        /\ qemu_child = "none" /\ ~qmp_ready
        /\ lst = "unspawned" /\ cli[LocalConn] = "idle"
        /\ cmdLog = <<>>

\* C7 witness: the launch has failed so on an image that has other tags
C7_Witness ==
    /\ snapshot_mode = "Never" /\ tagsAtBoot = {ONCLOSE_TAG, USER_TAG}
    /\ pc = "Failed" /\ err = "NotPackagedProperly"

\* snapshot commands among the QMP commands issued
SnapshotCommands == SelectSeq(cmdLog, LAMBDA c : c[1] \in {"snapshot-save", "snapshot-delete"})
QuitIssued == \E i \in 1..Len(cmdLog) : cmdLog[i][1] = "quit"

\* C8: at teardown only mode OnClose issues snapshot commands: it first
\* attempts the delete of appack-onclose, goes on whatever the delete
\* returned, then saves appack-onclose, and quits only after the save;
\* Never and NeverLoad make no save and no delete.
C8_TeardownOnlyOnCloseSaves ==
    /\ snapshot_mode # "OnClose" => callLog = <<>> /\ qcall = NoCall /\ SnapshotCommands = <<>>
    /\ snapshot_mode = "OnClose" =>
          /\ Len(callLog) <= 2
          /\ \A i \in 1..Len(callLog) :
                callLog[i].tag = ONCLOSE_TAG /\ callLog[i].op = <<"delete", "save">>[i]
          /\ qcall # NoCall =>
                qcall.tag = ONCLOSE_TAG /\ qcall.op = <<"delete", "save">>[Len(callLog) + 1]
          \* the delete returned, with any result: the save is under way
          /\ Len(callLog) = 1 => pc = "Snapshotting" /\ qcall.op = "save"
          \* the save is the last snapshot command, and quit comes after it
          /\ \A i \in 1..Len(SnapshotCommands) :
                SnapshotCommands[i][1] = "snapshot-save" => i = Len(SnapshotCommands)
          /\ QuitIssued =>
                /\ Len(callLog) = 2 /\ callLog[2].res = "Ok"
                /\ cmdLog[Len(cmdLog)][1] = "quit"
                /\ cmdLog[Len(cmdLog) - 1] = <<"snapshot-save", ONCLOSE_TAG>>

\* C8 witness: an OnClose launch is done whose delete failed and whose save
\* succeeded
C8_Witness ==
    /\ snapshot_mode = "OnClose" /\ pc = "Done" /\ QuitIssued
    /\ Len(callLog) = 2 /\ callLog[1].res # "Ok" /\ callLog[2].res = "Ok"

\* C9: in mode OnClose, a launch that found no tags on the image and ran to
\* Done cold-booted, made at teardown the delete of appack-onclose (whose
\* result it ignored) and then the save of appack-onclose, which
\* succeeded; the launch after it boots with -loadvm appack-onclose.
C9_OnCloseRoundTrip ==
    (snapshot_mode = "OnClose" /\ prev.pc = "Done" /\ prev.boot # "none" /\ prev.tags0 = {}) =>
        /\ prev.boot = "ColdBoot"
        /\ Len(prev.calls) = 2
        /\ prev.calls[1].op = "delete" /\ prev.calls[1].tag = ONCLOSE_TAG
        /\ prev.calls[2] = [op |-> "save", tag |-> ONCLOSE_TAG, res |-> "Ok"]
        /\ PolicyApplied => boot = ONCLOSE_TAG /\ err # "NotPackagedProperly"

\* C9 witness: the second launch runs its VM from appack-onclose after a
\* first launch on an image without tags whose delete found nothing
C9_Witness ==
    /\ snapshot_mode = "OnClose" /\ launchNo = 2
    /\ prev.pc = "Done" /\ prev.tags0 = {} /\ prev.boot = "ColdBoot"
    /\ Len(prev.calls) = 2 /\ prev.calls[1].res = "SnapshotNotFound"
    /\ boot = ONCLOSE_TAG /\ qemu_child = "running" /\ qmp_ready

\* ------------------------------------------------------ control client
\* C10: a save of a tag made right after a save of the same tag that
\* succeeded fails with SnapshotExists from a pre-check, and submits no
\* snapshot-save: the control session has seen one snapshot-save of the tag.
C10_SecondSaveFailsFast ==
    \A i \in 2..Len(callLog) :
        (/\ callLog[i - 1].op = "save" /\ callLog[i - 1].res = "Ok"
         /\ callLog[i].op = "save" /\ callLog[i].tag = callLog[i - 1].tag) =>
            /\ callLog[i].res = "SnapshotExists"
            /\ Len(SelectSeq(cmdLog,
                     LAMBDA c : c = <<"snapshot-save", callLog[i].tag>>)) = 1

\* a delete call looks at the answer to query-block to decide on a tag
\* that is not on the image
DeleteOfAbsentTagDecides ==
    /\ qcall.op = "delete" /\ qcall.at = "query_block" /\ qcall'.at # "query_block"
    /\ qcall.tag \notin tags /\ nBlocks = 1 /\ qmp_ready

\* C11: delete_snapshot_blocking of a tag that is not on the block device
\* returns SnapshotNotFound and issues no snapshot-delete, whatever
\* snapshot list the device reports, a missing list included.
C11_DeleteAbsentTagNotFound ==
    [][DeleteOfAbsentTagDecides =>
         /\ qcall' = NoCall
         /\ callLog' = Append(callLog, [op |-> "delete", tag |-> qcall.tag,
                                        res |-> "SnapshotNotFound"])
         /\ cmdLog' = cmdLog]_vars

\* the polling loop of the call in progress sees its job in the list
PollSeesJob == qcall.at = "poll" /\ qmp_ready /\ qcall.job \in DOMAIN jobs

\* the call in progress returns res in this step
CallReturns(res) ==
    /\ qcall # NoCall /\ qcall' # qcall
    /\ callLog' = Append(callLog, [op |-> qcall.op, tag |-> qcall.tag, res |-> res])

\* C12: the polling loop returns Ok only from a poll that saw the job
\* concluded without an error; while the job is created, running, waiting
\* or pending the call stays in the loop; a concluded job with an error
\* makes it return the job-failed error that carries the job's error text.
C12_PollUntilConcluded ==
    [][/\ CallReturns("Ok") =>
            PollSeesJob /\ jobs[qcall.job].status = "concluded" /\ jobs[qcall.job].error = ""
       /\ (PollSeesJob /\ jobs[qcall.job].status \in WaitingStatuses) =>
            qcall' = qcall /\ callLog' = callLog
       /\ (PollSeesJob /\ jobs[qcall.job].status = "concluded" /\ qcall' # qcall) =>
            IF jobs[qcall.job].error = ""
              THEN CallReturns("Ok")
              ELSE CallReturns("JobFailed: " \o jobs[qcall.job].error)]_vars

\* C12 witness: one call returned Ok after its job went through all the
\* statuses, another returned the text of its job's error
C12_Witness ==
    /\ \E i \in 1..Len(callLog) : callLog[i].res = "Ok"
    /\ \E i \in 1..Len(callLog) : callLog[i].res = "JobFailed: disk full"

\* the poll of the call in progress finds no job of its id, or finds it in
\* a status other than the five the loop knows
PollSeesUnknown ==
    /\ qcall.at = "poll" /\ qmp_ready
    /\ \/ qcall.job \notin DOMAIN jobs
       \/ jobs[qcall.job].status \notin (WaitingStatuses \cup {"concluded"})

\* C13: a poll that finds the job in a status other than created, running,
\* waiting, pending or concluded makes the call return the unknown-state
\* error, a poll that does not find the job id makes it return the
\* job-not-found error; such a poll never returns Ok and never leaves the
\* call in the loop.
C13_PollFailClosed ==
    PollSeesUnknown =>
        ~ENABLED (/\ PollJob
                  /\ ~(/\ qcall'.at # "poll"
                       /\ CallReturns(IF qcall.job \notin DOMAIN jobs
                                        THEN "JobNotFound" ELSE "UnknownState")))

\* C13 witness: one call ended on a job in an unknown status, another on a
\* job that was gone from the list
C13_Witness ==
    /\ \E i \in 1..Len(callLog) : callLog[i].res = "UnknownState"
    /\ \E i \in 1..Len(callLog) : callLog[i].res = "JobNotFound"

PcRank ==
    CASE pc = "TryAttach" -> 1 [] pc = "RemoteClient" -> 2 [] pc = "AwaitPrior" -> 3
      [] pc = "ChoosePort" -> 4 [] pc = "BootPolicy" -> 5 [] pc = "Spawn" -> 6
      [] pc = "AwaitQmp" -> 7 [] pc = "StartBroker" -> 8 [] pc = "AttachLocal" -> 9
      [] pc = "LocalClient" -> 10 [] pc = "Join" -> 11 [] pc = "TeardownConnect" -> 12
      [] pc = "TeardownPolicy" -> 13 [] pc = "Snapshotting" -> 14 [] pc = "Quit" -> 15
      [] OTHER -> 16

C17_PortMessageRoundTrip ==
    /\ from_le_bytes(to_le_bytes(0)) = 0
    /\ \A c \in Conns :
        /\ portbuf[c] # <<>> =>
              /\ Len(portbuf[c]) = 2
              /\ portbuf[c][1] \in 0..255 /\ portbuf[c][2] \in 0..255
              /\ portbuf[c][1] = free_port % 256
              /\ portbuf[c][2] = free_port \div 256
        /\ srv[c] \in {"read", "fetch_sub", "load", "send", "done"} => portbuf[c] # <<>>
        /\ cli[c] = "gotport" => cport[c] = free_port

\* C17 witness: the local client has decoded port 40000 from the bytes
\* 64, 156 while its handler waits in its read
C17_Witness ==
    /\ free_port = 40000 /\ cli[LocalConn] = "gotport" /\ cport[LocalConn] = 40000
    /\ portbuf[LocalConn] = <<64, 156>> /\ srv[LocalConn] = "read"

\* ------------------------------------------------- unexpected bytes
\* C18: a handler decrements the live-connection counter only when its
\* client's connection has closed (or a read failed); a byte sent by a
\* client that is still connected is not acted upon.
C18_DetachOnlyOnClose ==
    [][\A c \in Conns :
         (srv[c] = "fetch_sub" /\ srv'[c] = "load" /\ client_count' = client_count - 1) =>
            cli[c] = "closed"]_vars

\* ------------------------------------------------------- cancellation
\* C19: once a shutdown signal has been sent, the accept loop eventually
\* leaves, with no further connection needed, and when it has left the
\* socket file it bound is removed, so the path is free.
C19_AcceptLoopCancellable ==
    (sent > 0) ~> (lst = "exited" /\ sockFile = "absent")

\* C19 witness: the loop has left on the signal of the only client there
\* was and the path is free
C19_Witness ==
    /\ sent = 1 /\ lstWhy = "signal" /\ lst = "exited" /\ sockFile = "absent"
    /\ \A c \in External : cli[c] = "idle"

\* ------------------------------------------------------ one session
\* this launch has a session of its own: its VM runs and it has started
\* its broker thread
OwnSessionLive == qemu_child = "running" /\ lst # "unspawned"

\* another launch invocation of the same app has a live session: its
\* broker holds appack.sock
OtherSessionLive == sockFile = "other" \/ prior = "live"

\* C20: at most one live session (a spawned VM with its broker) exists for
\* the installed app at any time, whatever the interleaving of concurrent
\* launch invocations.
C20_AtMostOneSession == ~(OwnSessionLive /\ OtherSessionLive)

\* --------------------------------------------------------- attach only
\* C21: a launch whose first attach reached the broker of a live session
\* only attaches: it runs its display client and returns, and does not go
\* on to choose a port, read snapshots, spawn a VM or start a broker.
C21_AttachOnly ==
    [][pc = "RemoteClient" =>
         /\ pc' \in {"RemoteClient", "Done"}
         /\ UNCHANGED <<free_port, boot, tagsAtBoot, qemu_child, lst, cmdLog, callLog>>]_vars

\* ------------------------------------------------------ order of steps
\* the step that follows each step of a launch that starts a session
StepAfter(p) ==
    CASE p = "ChoosePort" -> {"BootPolicy"}
      [] p = "BootPolicy" -> {"Spawn"}
      [] p = "Spawn" -> {"AwaitQmp"}
      [] p = "AwaitQmp" -> {"StartBroker"}
      [] p = "StartBroker" -> {"AttachLocal"}
      [] p = "AttachLocal" -> {"LocalClient", "Join"}
      [] p = "LocalClient" -> {"Join"}
      [] p = "Join" -> {"TeardownConnect"}
      [] p = "TeardownConnect" -> {"TeardownPolicy"}
      [] p = "TeardownPolicy" -> {"Snapshotting", "Quit"}
      [] p = "Snapshotting" -> {"Quit"}
      [] p = "Quit" -> {"Done"}
      [] OTHER -> {}

\* C22: a launch that starts a session takes its steps in the order
\* ChoosePort, boot decision, SpawnVM, control socket ready, StartBroker,
\* AttachLocalClient, join of the broker thread, teardown decision, Quit,
\* Done, each once (a step is left only for the next one or for the
\* failure of the launch); the broker is started only once the control
\* socket has answered, and the control session of the teardown is opened
\* and used only after the broker thread has ended.
C22_StepOrder ==
    [][/\ (pc \in {"ChoosePort", "BootPolicy", "Spawn", "AwaitQmp", "StartBroker",
                   "AttachLocal", "LocalClient", "Join", "TeardownConnect",
                   "TeardownPolicy", "Snapshotting", "Quit"} /\ pc' # pc) =>
            pc' \in StepAfter(pc) \cup {"Failed"}
       /\ (pc' = "StartBroker" /\ pc # pc') => qmp_ready /\ lst = "unspawned"
       /\ lst # "unspawned" => pc \notin {"ChoosePort", "BootPolicy", "Spawn", "AwaitQmp"}
       /\ (pc \in {"TeardownConnect", "TeardownPolicy", "Snapshotting", "Quit"}
           \/ qcall # NoCall \/ cmdLog # <<>>) => lst = "exited"]_vars

\* C22 witness: a launch that started its session from appack-init is
\* Done: its client has left, its broker thread has ended, quit was issued
C22_Witness ==
    /\ pc = "Done" /\ boot = INIT_TAG /\ QuitIssued
    /\ cli[LocalConn] = "closed" /\ lst = "exited" /\ lstWhy = "signal"

\* --------------------------------------------- wait for a prior session
\* C23: after a failed attach, while the control socket of a previous
\* session still answers, launch stays in the wait and neither chooses a
\* port nor spawns a VM; it leaves the wait only when a connect to the
\* control socket fails, and then for the choice of the port.
C23_AwaitPriorTeardown ==
    [][/\ (pc = "AwaitPrior" /\ prior \in {"live", "closing", "orphan"}) =>
            pc' = "AwaitPrior" /\ free_port' = free_port /\ qemu_child' = qemu_child
       /\ (pc = "AwaitPrior" /\ pc' # pc) =>
            pc' = "ChoosePort" /\ prior \notin {"live", "closing", "orphan"}]_vars

\* ------------------------------------------------ one block device
\* C25: save, delete and the has-snapshot query need exactly one block
\* device with media inserted: with none or with more than one the
\* operation returns the device-count error from its first look, is not
\* tried again, and no snapshot-save or snapshot-delete is ever issued.
C25_ExactlyOneBlockDevice ==
    [][/\ nBlocks # 1 => SnapshotCommands' = <<>> /\ jobs' = <<>>
       /\ (qcall.at = "query_block" /\ qmp_ready /\ nBlocks # 1 /\ qcall' # qcall) =>
            /\ CallReturns("BlockDeviceCount")
            /\ qcall' = NoCall]_vars

\* C25 witness: with no device a has-snapshot query and a save have both
\* returned the error
C25_Witness ==
    /\ nBlocks = 0 /\ Len(callLog) = 2
    /\ callLog[1].op = "has" /\ callLog[1].res = "BlockDeviceCount"
    /\ callLog[2].op = "save" /\ callLog[2].res = "BlockDeviceCount"

\* ------------------------------------------------------------- creator
\* C24: when a best-effort cleanup on a failure path fails itself, the
\* error returned is the original one: creator_snapshot, whose zip failed,
\* returns the zip's error whatever its deletion of appack-init came to.
C24_CleanupNeverMasks ==
    [][(pc = "CrCleanup" /\ pc' # pc) => pc' = "Failed" /\ err' = "ZipFailed"]_vars

\* C26: creator_snapshot on an image that already has appack-init or
\* appack-onclose returns an error (the "already exists" one when its
\* query found the tag) and has by then killed no display client, not
\* stopped or quit the VM, and saved or deleted no snapshot.
C26_CreatorRefusesExistingTag ==
    (INIT_TAG \in tagsAtBoot \/ ONCLOSE_TAG \in tagsAtBoot) =>
        /\ pc \in {"CrConnect", "CrCheckInit", "CrCheckOnclose", "Failed"}
        /\ cli[LocalConn] = "gotport"
        /\ cmdLog = <<>> /\ jobs = <<>> /\ tags = tagsAtBoot
        /\ qemu_child = "running" /\ qmp_ready
        /\ \A i \in 1..Len(callLog) : callLog[i].op = "has"
        /\ (callLog # <<>> /\ callLog[Len(callLog)].res = "true") =>
              pc = "Failed" /\ err = "SnapshotExists"

\* C26 witness: the second query found appack-onclose and creator_snapshot
\* has returned the error
C26_Witness ==
    /\ tagsAtBoot = {ONCLOSE_TAG, USER_TAG} /\ pc = "Failed" /\ err = "SnapshotExists"
    /\ Len(callLog) = 2 /\ callLog[1].res = "false" /\ callLog[2].res = "true"

\* ---------------------------------------------------------------- C27
HomeSlash == <<"/", "h", "o", "m", "e", "/">>

\* the path has the form /home/<user>/<rest>
IsHomeUserRest(p) == starts_with(p, HomeSlash) /\ \E i \in 7..Len(p) : p[i] = "/"

\* <rest> of a path of that form: what follows the '/' that ends <user>
RestOf(p) ==
    LET e == CHOOSE i \in 7..Len(p) : p[i] = "/" /\ \A k \in 7..(i - 1) : p[k] # "/"
    IN  SubSeq(p, e + 1, Len(p))

\* the path is wrapped in a pair of single quotes
Wrapped(p) == Len(p) >= 2 /\ p[1] = "'" /\ p[Len(p)] = "'"

\* C27 as stated: /home/<user>/<rest> gives the prefix followed by <rest>
\* with every '/' replaced by '\'; every non-empty path not starting with
\* /home/ gives the prefix followed by the path with its leading '/'
\* removed and the remaining '/' replaced by '\'.
C27_AsStated ==
    pc = "Escaped" =>
        /\ IsHomeUserRest(unix_path_arg) =>
               escaped_path = PREFIX \o replace(RestOf(unix_path_arg), "/", "\\")
        /\ (unix_path_arg # <<>> /\ ~starts_with(unix_path_arg, HomeSlash)) =>
               escaped_path =
                   PREFIX \o replace(trim_start_matches(unix_path_arg, "/"), "/", "\\")

\* C27 amended: /home/<user>/<rest> gives the prefix followed by <rest>
\* with its leading '/' removed and every remaining '/' replaced by '\';
\* every non-empty path that neither starts with /home/ nor is wrapped in
\* a pair of single quotes gives the prefix followed by the path with its
\* leading '/' removed and every remaining '/' replaced by '\'.
C27_EscapedPath ==
    pc = "Escaped" =>
        /\ IsHomeUserRest(unix_path_arg) =>
               escaped_path =
                   PREFIX \o replace(trim_start_matches(RestOf(unix_path_arg), "/"), "/", "\\")
        /\ (unix_path_arg # <<>> /\ ~starts_with(unix_path_arg, HomeSlash)
            /\ ~Wrapped(unix_path_arg)) =>
               escaped_path =
                   PREFIX \o replace(trim_start_matches(unix_path_arg, "/"), "/", "\\")

\* /home/u/a b/u has been mapped to \\tsclient\home\a b\u
C27_Witness ==
    /\ pc = "Escaped"
    /\ unix_path_arg = HomeSlash \o <<"u", "/", "a", " ", "b", "/", "u">>
    /\ escaped_path = PREFIX \o <<"a", " ", "b", "\\", "u">>

\* ---------------------------------------------------------------- C28
\* the path is exactly /home/<user>, with no '/' after the user
IsHomeUser(p) == starts_with(p, HomeSlash) /\ ~IsHomeUserRest(p)

\* the empty path, /home/<user>, /home/<user>/ and / map as the spec says
EdgeCasesUnquoted ==
    /\ unix_path_arg = <<>> => escaped_path = <<>>
    /\ IsHomeUser(unix_path_arg) =>
           escaped_path = PREFIX \o <<"h", "o", "m", "e", "\\">> \o slice_from(unix_path_arg, 6)
    /\ (IsHomeUserRest(unix_path_arg) /\ RestOf(unix_path_arg) = <<>>) =>
           escaped_path = PREFIX
    /\ unix_path_arg = <<"/">> => escaped_path = PREFIX

\* C28: the empty path maps to the empty string; /home/<user> maps to
\* prefix + home\<user>; /home/<user>/ and / map to the bare prefix; a
\* path wrapped in one pair of single quotes maps to what the path inside
\* the quotes maps to.
C28_EdgeCases ==
    pc = "Escaped" =>
        /\ EdgeCasesUnquoted
        /\ (Wrapped(unix_path_arg)
            /\ ~Wrapped(SubSeq(unix_path_arg, 2, Len(unix_path_arg) - 1))) =>
               escaped_path =
                   to_win_escaped_path(SubSeq(unix_path_arg, 2, Len(unix_path_arg) - 1))

\* ---------------------------------------------------------------- C29
\* handlers that were spawned and have not yet taken their connection off
\* the counter
Counted == {c \in Conns : srv[c] \in {"write", "read", "fetch_sub"}}

\* C29: the live-connection counter equals the number of accepted
\* connections whose handler has not yet taken its connection off the
\* counter; when every spawned handler has finished, on whichever exit
\* path, the counter is 0.
C29_CounterMatchesHandlers ==
    /\ client_count = Cardinality(Counted)
    /\ (\A c \in Conns : srv[c] \in {"none", "backlog", "done", "aborted"}) => client_count = 0

\* ---------------------------------------------------------------- C30
\* C30: when launch has spawned a VM and has returned, with Ok or with
\* an error, the VM is not left running with its control socket answering.
C30_NoVmLeftRunning ==
    (Returned /\ qemu_child # "none") => ~(qemu_child = "running" /\ qmp_ready)

\* ---------------------------------------------------------------- C31
\* C31: a delete or save of appack-onclose is issued by the teardown only
\* after at least one display client connected to this session's broker
\* and disconnected, also when the bind failed or accept returned an error.
C31_SaveOnlyAfterClient ==
    SnapshotCommands # <<>> => \E c \in Conns : cli[c] = "closed"

\* ---------------------------------------------------------------- C32
\* a handler's fetch_sub has left the counter at 0
DecrementedToZero == \E c \in Conns : srv[c] \notin {"none", "backlog"} /\ hdec[c] = 0

\* the listener leaves its accept loop
LeavesLoop == lst \in {"accept", "tryrecv"} /\ lst' \notin {"accept", "tryrecv"}

\* C32: a broker whose bind succeeded sends no shutdown signal, and has
\* none pending, while no client has been accepted; and unless accept
\* returned an error, its loop is left only after a client was accepted
\* and a handler's decrement left the counter at 0.
C32_NoExitWhileIdle ==
    [][/\ Accepted' = {} => sent' = 0 /\ chan' = 0
       /\ sent' # sent => DecrementedToZero
       /\ (LeavesLoop /\ lstWhy' # "accepterr") => Accepted # {} /\ DecrementedToZero]_vars

\* the loop was left on a shutdown signal after a handler took the counter to 0
C32_Witness == lst = "exited" /\ lstWhy = "signal" /\ sent > 0 /\ DecrementedToZero

\* ---------------------------------------------------------------- C33
\* launch is past handle.join(): it is in the teardown or has returned
JoinReturned == pc \notin {"StartBroker", "AttachLocal", "LocalClient", "Join"}

\* C33: in a session whose control socket is ready and whose clients all
\* close in the end, launch eventually gets past the join of the broker
\* thread on its way to Quit, also when its own client's attach failed.
C33_LaunchPassesJoin == <>JoinReturned

\* ---------------------------------------------------------------- C34
\* C34: over launches and resets in every trigger mode, every snapshot
\* command names appack-onclose and the tags of the image other than
\* appack-onclose never change.
C34_OnlyOnCloseTouched ==
    [][/\ tags' \ {ONCLOSE_TAG} = tags \ {ONCLOSE_TAG}
       /\ \A i \in 1..Len(SnapshotCommands') : SnapshotCommands'[i][2] = ONCLOSE_TAG]_vars

\* a second launch runs on an image that still has appack-init after the
\* first launch saved appack-onclose and a reset deleted it
C34_Witness ==
    /\ launchNo = 2 /\ Len(prev.calls) = 2 /\ prev.calls[2].res = "Ok"
    /\ INIT_TAG \in tags /\ ONCLOSE_TAG \notin tags
    /\ ONCLOSE_TAG \notin tagsAtBoot /\ boot # "none"

\* ---------------------------------------------------------------- C35
\* the list holds at most one entry per app id
OnePerId(list) ==
    \A i, j \in 1..Len(list) : list[i].id = list[j].id => i = j

\* C35: after every install_appack and uninstall_appack the installed
\* list holds at most one entry per app id, and an install_appack that
\* returns an error leaves the installed list as it was.
C35_InstalledList ==
    [][/\ OnePerId(installed_yaml'.installed)
       /\ (last_call'.op = "install" /\ last_call'.res # "Ok") =>
              installed_yaml' = installed_yaml]_vars

\* ---------------------------------------------------------------- C36
\* C36: the job id of a save of a tag differs from the job id of a delete
\* of the same tag, and a polling loop only ever looks at the job its own
\* call submitted: the job it finds under its id has its operation and tag.
C36_PollsOwnJob ==
    /\ \A t \in AllTags : save_job_name(t) # delete_job_name(t)
    /\ (qcall.at = "poll" /\ qcall.job \in DOMAIN jobs) =>
           /\ jobs[qcall.job].op = qcall.op
           /\ jobs[qcall.job].tag = qcall.tag
           /\ qcall.job = IF qcall.op = "save" THEN save_job_name(qcall.tag)
                          ELSE delete_job_name(qcall.tag)

\* the teardown's save polls its job while the delete job that preceded
\* it is still listed, concluded
C36_Witness ==
    /\ pc = "Snapshotting" /\ qcall.op = "save" /\ qcall.at = "poll"
    /\ qcall.job = save_job_name(ONCLOSE_TAG)
    /\ delete_job_name(ONCLOSE_TAG) \in DOMAIN jobs
    /\ save_job_name(ONCLOSE_TAG) \in DOMAIN jobs
    /\ jobs[delete_job_name(ONCLOSE_TAG)].status = "concluded"
    /\ jobs[save_job_name(ONCLOSE_TAG)].status # "concluded"
====
